---- MODULE Spec2Model ----
(***************************************************************************)
(* Coordinate normalisation and record materialisation of the Grote Atlas  *)
(* coordinate transformer.                                                 *)
(*                                                                         *)
(* Strings are sequences of one-character strings, so that split, trim,    *)
(* the hemisphere regular expressions and parseFloat are computed the way  *)
(* the JavaScript built-ins compute them.  Numbers are fixed-point         *)
(* integers counting units of 1/(3600 * 10^FracDigits) of a degree, which  *)
(* represents degrees + minutes/60 + seconds/3600 exactly for components   *)
(* with at most FracDigits decimals (IEEE rounding is abstracted away).    *)
(***************************************************************************)
EXTENDS Integers, Sequences, FiniteSets, TLC

\* ------------------------------------------------------------------ bounds
\* decimals kept by the fixed-point representation of a number
FracDigits == 1
\* calls of the parser / dmsToDecimal explored from the initial state
MaxCalls == 2

\* --------------------------------------------------- JavaScript primitives
WhiteSpace == {" ", "\t", "\n"}

DigitChars == <<"0", "1", "2", "3", "4", "5", "6", "7", "8", "9">>

IsDigit(c) == \E i \in 1..10 : DigitChars[i] = c

DigitVal(c) == (CHOOSE i \in 1..10 : DigitChars[i] = c) - 1

RECURSIVE Pow10(_)
Pow10(n) == IF n = 0 THEN 1 ELSE 10 * Pow10(n - 1)

\* units per degree, per minute, per second
SecUnit == Pow10(FracDigits)
MinUnit == 60 * SecUnit
DegUnit == 3600 * SecUnit

\* String.prototype.trim
RECURSIVE TrimLeft(_)
TrimLeft(s) ==
  IF s # <<>> /\ Head(s) \in WhiteSpace THEN TrimLeft(Tail(s)) ELSE s

RECURSIVE TrimRight(_)
TrimRight(s) ==
  IF s # <<>> /\ s[Len(s)] \in WhiteSpace
  THEN TrimRight(SubSeq(s, 1, Len(s) - 1))
  ELSE s

Trim(s) == TrimRight(TrimLeft(s))

\* String.prototype.indexOf from position i: 0 when sep does not occur
RECURSIVE IndexOf(_, _, _)
IndexOf(s, sep, i) ==
  IF i > Len(s) THEN 0
  ELSE IF s[i] = sep THEN i
  ELSE IndexOf(s, sep, i + 1)

\* String.prototype.split with a one-character separator
RECURSIVE Split(_, _)
Split(s, sep) ==
  LET i == IndexOf(s, sep, 1)
  IN  IF i = 0 THEN <<s>>
      ELSE <<SubSeq(s, 1, i - 1)>> \o Split(SubSeq(s, i + 1, Len(s)), sep)

\* the value of a run of digits
RECURSIVE DigitsValue(_)
DigitsValue(s) ==
  IF s = <<>> THEN 0
  ELSE 10 * DigitsValue(SubSeq(s, 1, Len(s) - 1)) + DigitVal(s[Len(s)])

\* the longest prefix of s made of digits
RECURSIVE DigitPrefix(_)
DigitPrefix(s) ==
  IF s # <<>> /\ IsDigit(Head(s)) THEN <<Head(s)>> \o DigitPrefix(Tail(s))
  ELSE <<>>

\* a JavaScript number: NaN or a fixed-point value
NaN == [nan |-> TRUE, v |-> 0]
Num(x) == [nan |-> FALSE, v |-> x]
isNaN(x) == x.nan
Neg(x) == IF x.nan THEN NaN ELSE Num(0 - x.v)

\* the first FracDigits decimals of a digit run, as an integer
FracValue(fp) ==
  LET kept == SubSeq(fp, 1, IF Len(fp) < FracDigits THEN Len(fp) ELSE FracDigits)
  IN  DigitsValue(kept) * Pow10(FracDigits - Len(kept))

\* Number.parseFloat on a string without sign or exponent: the longest
\* prefix "digits [. digits]" or ". digits"; NaN when there is none
ParseFloat(s) ==
  LET ip   == DigitPrefix(s)
      rest == SubSeq(s, Len(ip) + 1, Len(s))
      fp   == IF rest # <<>> /\ Head(rest) = "." THEN DigitPrefix(Tail(rest))
              ELSE <<>>
  IN  IF ip = <<>> /\ fp = <<>> THEN NaN
      ELSE Num(DigitsValue(ip) * SecUnit + FracValue(fp))

\* ------------------------------------------------------------ dmsToDecimal
dmsParts(dmsStr) ==
  LET raw == Split(dmsStr, "-")
  IN  [i \in 1..Len(raw) |-> ParseFloat(Trim(raw[i]))]

\* variant: a component that fails to parse counts as zero
dmsAccumulateNoNaNCheck(parts) ==
  Num((IF Len(parts) >= 1 THEN parts[1].v * 3600 ELSE 0)
    + (IF Len(parts) >= 2 THEN parts[2].v * 60 ELSE 0)
    + (IF Len(parts) >= 3 THEN parts[3].v ELSE 0))

\* NaN when some component is NaN, else the sum of the first three components
dmsAccumulate(parts) ==
  IF \E i \in 1..Len(parts) : isNaN(parts[i]) THEN NaN
  ELSE Num((IF Len(parts) >= 1 THEN parts[1].v * 3600 ELSE 0)
         + (IF Len(parts) >= 2 THEN parts[2].v * 60 ELSE 0)
         + (IF Len(parts) >= 3 THEN parts[3].v ELSE 0))

dmsToDecimal(dmsStr) == dmsAccumulate(dmsParts(dmsStr))

\* ------------------------------------------------ parseSingleCoordinateEntry
Null == [kind |-> "null", latitude |-> 0, longitude |-> 0]
Pair(lat, lon) == [kind |-> "pair", latitude |-> lat, longitude |-> lon]
\* a TypeError raised by a property access on undefined or null
Throw == [kind |-> "throw", latitude |-> 0, longitude |-> 0]

\* /^([\d.-]+)([dirs])$/i : the captured run and letter, or no match
NoMatch == [ok |-> FALSE, nums |-> <<>>, dir |-> ""]

UpperOf(c) ==
  CASE c = "n" -> "N" [] c = "s" -> "S" [] c = "e" -> "E" [] c = "w" -> "W"
    [] OTHER -> c

\* variant: any of the four letters is taken in either half
HemiMatchAnyLetter(s, dirs) ==
  IF /\ Len(s) >= 2
     /\ UpperOf(s[Len(s)]) \in {"N", "S", "E", "W"}
     /\ \A i \in 1..(Len(s) - 1) : IsDigit(s[i]) \/ s[i] = "." \/ s[i] = "-"
  THEN [ok |-> TRUE, nums |-> SubSeq(s, 1, Len(s) - 1), dir |-> s[Len(s)]]
  ELSE NoMatch

HemiMatch(s, dirs) ==
  IF /\ Len(s) >= 2
     /\ UpperOf(s[Len(s)]) \in dirs
     /\ \A i \in 1..(Len(s) - 1) : IsDigit(s[i]) \/ s[i] = "." \/ s[i] = "-"
  THEN [ok |-> TRUE, nums |-> SubSeq(s, 1, Len(s) - 1), dir |-> s[Len(s)]]
  ELSE NoMatch

\* variant: the "??" placeholder is not recognised
IsPlaceholderNoQuestionMarks(coordPairStr) ==
  \/ coordPairStr = <<>>
  \/ Trim(coordPairStr) = <<>>
  \/ coordPairStr = <<"-">>

\* the guard that returns null before the cache is consulted
IsPlaceholder(coordPairStr) ==
  \/ coordPairStr = <<>>
  \/ Trim(coordPairStr) = <<>>
  \/ coordPairStr = <<"-">>
  \/ coordPairStr = <<"?", "?">>

\* !x for a value that is undefined or a string
Falsy(defined, s) == ~defined \/ s = <<>>

\* variant: only the latitude half is tested
MissingHalfLatOnly(halves) ==
  Falsy(Len(halves) >= 1, IF Len(halves) >= 1 THEN halves[1] ELSE <<>>)

\* if (!latStrFull || !lonStrFull) on the first two elements of the split
MissingHalf(halves) ==
  \/ Falsy(Len(halves) >= 1, IF Len(halves) >= 1 THEN halves[1] ELSE <<>>)
  \/ Falsy(Len(halves) >= 2, IF Len(halves) >= 2 THEN halves[2] ELSE <<>>)

\* variant: the hemisphere letter is compared without toUpperCase
SignedValueCaseSensitive(raw, dir, negDir) ==
  IF dir = negDir THEN Neg(raw) ELSE raw

\* if (dir.toUpperCase() === negDir) val = -val
SignedValue(raw, dir, negDir) ==
  IF UpperOf(dir) = negDir THEN Neg(raw) ELSE raw

\* variant: the longitude limits are not checked
OutOfRangeLatOnly(latVal, lonVal) ==
  \/ latVal.v < 0 - 90 * DegUnit
  \/ latVal.v > 90 * DegUnit

\* latVal < -90 || latVal > 90 || lonVal < -180 || lonVal > 180
OutOfRange(latVal, lonVal) ==
  \/ latVal.v < 0 - 90 * DegUnit
  \/ latVal.v > 90 * DegUnit
  \/ lonVal.v < 0 - 180 * DegUnit
  \/ lonVal.v > 180 * DegUnit

\* the checks on the two signed values: NaN, then the range
ParseValues(latVal, lonVal) ==
  IF isNaN(latVal) \/ isNaN(lonVal) THEN Null
  ELSE IF OutOfRange(latVal, lonVal) THEN Null
  ELSE Pair(latVal.v, lonVal.v)

\* the steps after the two regular-expression matches: null when the
\* latitude match failed, then null when the longitude match failed
ParseMatches(latMatch, lonMatch) ==
  IF ~latMatch.ok THEN Null
  ELSE IF ~lonMatch.ok THEN Null
  ELSE ParseValues(SignedValue(dmsToDecimal(latMatch.nums), latMatch.dir, "S"),
                   SignedValue(dmsToDecimal(lonMatch.nums), lonMatch.dir, "W"))

\* const [latStrFull, lonStrFull] = halves, and the steps that follow
ParseHalves(halves) ==
  IF MissingHalf(halves) THEN Null
  \* .trim() on a half that is undefined raises a TypeError
  ELSE IF Len(halves) < 2 THEN Throw
  ELSE ParseMatches(HemiMatch(Trim(halves[1]), {"N", "S"}),
                    HemiMatch(Trim(halves[2]), {"E", "W"}))

\* the body after the placeholder guard, without the cache
ParseBody(coordPairStr) == ParseHalves(Split(coordPairStr, "/"))

\* actions.ts: the parser of processUploadedCsv, which has no cache
parseSingleCoordinateEntryCsv(coordPairStr) ==
  IF IsPlaceholder(coordPairStr) THEN Null ELSE ParseBody(coordPairStr)

\* variant: the key is the trimmed token
cacheSetTrimmedKey(coordPairStr, r, cache) ==
  IF r.kind = "throw" THEN [val |-> r, cache |-> cache]
  ELSE [val |-> r, cache |-> (Trim(coordPairStr) :> r) @@ cache]

\* coordinateCache.set(coordPairStr, r) before every return of null or of a
\* pair; an exception leaves the cache as it is
cacheSet(coordPairStr, r, cache) ==
  IF r.kind = "throw" THEN [val |-> r, cache |-> cache]
  ELSE [val |-> r, cache |-> (coordPairStr :> r) @@ cache]

\* data-processing.ts: the cached parser; the value returned and the cache
\* after the call
parseSingleCoordinateEntry(coordPairStr, cache) ==
  IF IsPlaceholder(coordPairStr) THEN [val |-> Null, cache |-> cache]
  ELSE IF coordPairStr \in DOMAIN cache
  THEN [val |-> cache[coordPairStr], cache |-> cache]
  ELSE cacheSet(coordPairStr, ParseBody(coordPairStr), cache)

\* ------------------------------------------------------------------- rows
\* the column names read by processRawData, and the default strings
KeyCoordSlash ==
  <<"C", "o", "ö", "r", "d", "i", "n", "a", "t", "e", "n", "/", "C", "o", "o", "r", "d", "i", "n", "a", "t", "e", "s">>
KeyCoordNewline ==
  <<"C", "o", "ö", "r", "d", "i", "n", "a", "t", "e", "n", "\n", "C", "o", "o", "r", "d", "i", "n", "a", "t", "e", "s">>
KeyCoordDutch ==
  <<"C", "o", "ö", "r", "d", "i", "n", "a", "t", "e", "n">>
KeyCoordEnglish ==
  <<"C", "o", "o", "r", "d", "i", "n", "a", "t", "e", "s">>
KeyNameSlash ==
  <<"O", "o", "r", "s", "p", "r", ".", " ", "n", "a", "a", "m", " ", "o", "p", " ", "d", "e", " ", "k", "a", "a", "r", "t", "/", "O", "r", "i", "g", "i", "n", "a", "l", " ", "n", "a", "m", "e", " ", "o", "n", " ", "t", "h", "e", " ", "m", "a", "p">>
KeyNameNewline ==
  <<"O", "o", "r", "s", "p", "r", ".", " ", "n", "a", "a", "m", " ", "o", "p", " ", "d", "e", " ", "k", "a", "a", "r", "t", "\n", "O", "r", "i", "g", "i", "n", "a", "l", " ", "n", "a", "m", "e", " ", "o", "n", " ", "t", "h", "e", " ", "m", "a", "p">>
KeyNameDutch ==
  <<"O", "o", "r", "s", "p", "r", ".", " ", "n", "a", "a", "m", " ", "o", "p", " ", "d", "e", " ", "k", "a", "a", "r", "t">>
KeyNameEnglish ==
  <<"O", "r", "i", "g", "i", "n", "a", "l", " ", "n", "a", "m", "e", " ", "o", "n", " ", "t", "h", "e", " ", "m", "a", "p">>
KeyCatSlash ==
  <<"S", "o", "o", "r", "t", "n", "a", "a", "m", "/", "C", "a", "t", "e", "g", "o", "r", "y">>
KeyCatNewline ==
  <<"S", "o", "o", "r", "t", "n", "a", "a", "m", "\n", "C", "a", "t", "e", "g", "o", "r", "y">>
KeyCatDutch ==
  <<"S", "o", "o", "r", "t", "n", "a", "a", "m">>
KeyCatEnglish ==
  <<"C", "a", "t", "e", "g", "o", "r", "y">>
StrNA ==
  <<"N", "/", "A">>
StrUnknown ==
  <<"U", "n", "k", "n", "o", "w", "n">>
StrPointPrefix ==
  <<"p", "o", "i", "n", "t", "-">>

\* a row value that is not a string (a JSON number): truthy, and .trim is
\* not a function on it
NonString == <<"<number>">>

\* a row is an ordered mapping: a sequence of [k |-> column, v |-> value]
\* row[key]: undefined when the row has no such column
Undefined == [def |-> FALSE, s |-> <<>>]
Defined(v) == [def |-> TRUE, s |-> v]

Lookup(row, key) ==
  IF \E i \in 1..Len(row) : row[i].k = key
  THEN Defined(row[CHOOSE i \in 1..Len(row) : row[i].k = key].v)
  ELSE Undefined

Truthy(o) == o.def /\ o.s # <<>>

\* a || b
Or(a, b) == IF Truthy(a) THEN a ELSE b

\* the three fields resolved for a row by processRawData and by the worker
coordStringOf(row) ==
  Or(Or(Or(Lookup(row, KeyCoordSlash), Lookup(row, KeyCoordNewline)),
        Lookup(row, KeyCoordDutch)),
     Lookup(row, KeyCoordEnglish))

\* variant: no 'N/A' default at the end of the chain
originalNameOfNoDefault(row) ==
  Or(Or(Or(Lookup(row, KeyNameSlash), Lookup(row, KeyNameNewline)),
        Lookup(row, KeyNameDutch)),
     Lookup(row, KeyNameEnglish))

originalNameOf(row) ==
  Or(Or(Or(Or(Lookup(row, KeyNameSlash), Lookup(row, KeyNameNewline)),
           Lookup(row, KeyNameDutch)),
        Lookup(row, KeyNameEnglish)),
     Defined(StrNA))

categoryOf(row) ==
  Or(Or(Or(Or(Lookup(row, KeyCatSlash), Lookup(row, KeyCatNewline)),
           Lookup(row, KeyCatDutch)),
        Lookup(row, KeyCatEnglish)),
     Defined(StrUnknown))

\* `point-${n}`: the decimal digits of n after the prefix
RECURSIVE DecimalString(_)
DecimalString(n) ==
  IF n < 10 THEN <<DigitChars[n + 1]>>
  ELSE DecimalString(n \div 10) \o <<DigitChars[(n % 10) + 1]>>

PointId(n) == StrPointPrefix \o DecimalString(n)

\* variant: the segments are not trimmed
coordPartsOfUntrimmed(str) == Split(str, "+")

\* coordString.split('+').map((s) => s.trim())
coordPartsOf(str) ==
  LET segs == Split(str, "+")
  IN  [i \in 1..Len(segs) |-> Trim(segs[i])]

\* part === '' || part === '-' || part === '??'
SkippedPart(part) ==
  part = <<>> \/ part = <<"-">> \/ part = <<"?", "?">>

\* !coordString || coordString.trim() === '' || coordString === '-' ||
\* coordString === '??', for a coordString that is a string or undefined
SkippedRow(coordString) ==
  \/ ~Truthy(coordString)
  \/ Trim(coordString.s) = <<>>
  \/ coordString.s = <<"-">>
  \/ coordString.s = <<"?", "?">>

\* variant: the id counter is not advanced
PushPointSameId(acc, point, cache) ==
  [acc EXCEPT !.processed = Append(@, point), !.cache = cache]

\* processed.push({id: `point-${idCounter++}`, ...}) after a successful parse
PushPoint(acc, point, cache) ==
  [acc EXCEPT !.processed = Append(@, point),
              !.idCounter = @ + 1,
              !.cache = cache]

\* variant: latitude and longitude change places in the record
EmitPartSwapped(part, r, originalName, category, rowRef, acc) ==
  CASE r.val.kind = "pair" ->
         PushPoint(acc,
                   [id             |-> PointId(acc.idCounter),
                    latitude       |-> r.val.longitude,
                    longitude      |-> r.val.latitude,
                    originalName   |-> originalName,
                    category       |-> IF category = <<>> THEN StrUnknown
                                       ELSE category,
                    originalCoords |-> part,
                    rowData        |-> rowRef],
                   r.cache)
    [] r.val.kind = "null" -> [acc EXCEPT !.cache = r.cache]
    [] OTHER -> [acc EXCEPT !.threw = TRUE]

\* the loop over the parts of one row.  acc carries the records pushed so
\* far, the id counter, the coordinate cache and whether a TypeError was
\* raised; cached selects the parser with or without the cache.
\* if (parsed) processed.push({...}), for the outcome r of the parser
EmitPart(part, r, originalName, category, rowRef, acc) ==
  CASE r.val.kind = "pair" ->
         PushPoint(acc,
                   [id             |-> PointId(acc.idCounter),
                    latitude       |-> r.val.latitude,
                    longitude      |-> r.val.longitude,
                    originalName   |-> originalName,
                    category       |-> IF category = <<>> THEN StrUnknown
                                       ELSE category,
                    originalCoords |-> part,
                    rowData        |-> rowRef],
                   r.cache)
    [] r.val.kind = "null" -> [acc EXCEPT !.cache = r.cache]
    [] OTHER -> [acc EXCEPT !.threw = TRUE]

RECURSIVE EmitParts(_, _, _, _, _, _, _)
EmitParts(parts, k, originalName, category, rowRef, cached, acc) ==
  IF k > Len(parts) \/ acc.threw THEN acc
  ELSE IF SkippedPart(parts[k])
  THEN EmitParts(parts, k + 1, originalName, category, rowRef, cached, acc)
  ELSE EmitParts(parts, k + 1, originalName, category, rowRef, cached,
         EmitPart(parts[k],
                  IF cached THEN parseSingleCoordinateEntry(parts[k], acc.cache)
                  ELSE [val |-> parseSingleCoordinateEntryCsv(parts[k]),
                        cache |-> acc.cache],
                  originalName, category, rowRef, acc))

\* the body of the loop over rows, for a row with the given resolved fields
EmitRow(coordString, originalName, category, rowRef, cached, acc) ==
  IF ~Truthy(coordString) THEN acc
  \* coordString.trim is not a function
  ELSE IF coordString.s = NonString THEN [acc EXCEPT !.threw = TRUE]
  ELSE IF SkippedRow(coordString) THEN acc
  ELSE EmitParts(coordPartsOf(coordString.s), 1, originalName, category,
                 rowRef, cached, acc)

\* one row of processRawData and of the worker; rowData refers to the row
\* object, here the index of the row in raw
ProcessRow(row, rowRef, acc) ==
  EmitRow(coordStringOf(row), originalNameOf(row).s, categoryOf(row).s,
          rowRef, TRUE, acc)

\* for (let i = startIndex; i < endIndex; i++), indices counted from 0: the
\* rows are folded in order; the range is halved so that the evaluation
\* stays shallow, and a raised TypeError ends the loop
RECURSIVE ProcessRows(_, _, _, _)
ProcessRows(raw, i, endIndex, acc) ==
  IF i >= endIndex \/ acc.threw THEN acc
  ELSE IF i + 1 = endIndex THEN ProcessRow(raw[i + 1], i, acc)
  ELSE LET mid == (i + endIndex) \div 2
       IN  ProcessRows(raw, mid, endIndex, ProcessRows(raw, i, mid, acc))

Min(a, b) == IF a < b THEN a ELSE b

\* ------------------------------------------------------------ processRawData
chunkSize == 100

\* variant: the counter restarts at zero in every chunk
chunkIdStartZero(processed) == 0

\* let idCounter = processed.length
chunkIdStart(processed) == Len(processed)

\* processChunk(startIndex, processed): the records after the chunk, the
\* cache, the index the next chunk starts at, and how the chunk ended: by an
\* exception, by scheduling the next chunk, or by resolve(processed)
chunkEnd(acc, endIndex, rawLength) ==
  [processed |-> acc.processed,
   cache     |-> acc.cache,
   endIndex  |-> endIndex,
   outcome   |-> IF acc.threw THEN "threw"
                 ELSE IF endIndex < rawLength THEN "scheduled"
                 ELSE "resolved"]

processChunk(raw, startIndex, processed, cache) ==
  chunkEnd(ProcessRows(raw, startIndex, Min(startIndex + chunkSize, Len(raw)),
                       [processed |-> processed,
                        idCounter |-> chunkIdStart(processed),
                        cache     |-> cache,
                        threw     |-> FALSE]),
           Min(startIndex + chunkSize, Len(raw)), Len(raw))

\* ------------------------------------------- worker: processRawDataInChunks
workerChunkSize == 50

\* the quotient without Math.min
workerProgressNoMin(i, n) == [num |-> i + workerChunkSize, den |-> n]

\* Math.min((i + chunkSize) / raw.length, 1) as a fraction num/den
workerProgress(i, n) ==
  IF i + workerChunkSize >= n THEN [num |-> 1, den |-> 1]
  ELSE [num |-> i + workerChunkSize, den |-> n]

\* the end of one chunk of the worker's loop: the rejection of an exception
\* is caught by the listener, which posts ERROR; otherwise PROGRESS is posted
\* and the loop awaits its timer
workerChunkEnd(acc, i, rawLength, outbox) ==
  IF acc.threw
  THEN [state |-> "done", i |-> i,
        processed |-> acc.processed, idCounter |-> acc.idCounter,
        cache |-> acc.cache,
        outbox |-> Append(outbox, [type |-> "ERROR"])]
  ELSE [state |-> "awaiting", i |-> i,
        processed |-> acc.processed, idCounter |-> acc.idCounter,
        cache |-> acc.cache,
        outbox |-> Append(outbox,
                          [type |-> "PROGRESS",
                           progress |-> workerProgress(i, rawLength)])]

\* the loop of processRawDataInChunks from index i up to its next await, or
\* to its return when i has reached raw.length; w is the worker's state
\* (records, id counter, cache, posted messages)
workerLoop(raw, i, w) ==
  IF i < Len(raw)
  THEN workerChunkEnd(ProcessRows(raw, i, Min(i + workerChunkSize, Len(raw)),
                                  [processed |-> w.processed,
                                   idCounter |-> w.idCounter,
                                   cache     |-> w.cache,
                                   threw     |-> FALSE]),
                      i, Len(raw), w.outbox)
  ELSE [state |-> "done", i |-> i,
        processed |-> w.processed, idCounter |-> w.idCounter,
        cache |-> w.cache,
        outbox |-> Append(w.outbox,
                          [type |-> "COMPLETE", points |-> w.processed])]

\* --------------------------------------------------------- processUploadedCsv
\* the lower-cased markers the header keys are searched for
MarkCoordDutch ==
  <<"c", "o", "ö", "r", "d", "i", "n", "a", "t", "e", "n">>
MarkCoordEnglish ==
  <<"c", "o", "o", "r", "d", "i", "n", "a", "t", "e", "s">>
MarkNameDutch ==
  <<"o", "o", "r", "s", "p", "r", ".", " ", "n", "a", "a", "m", " ", "o", "p", " ", "d", "e", " ", "k", "a", "a", "r", "t">>
MarkNameEnglish ==
  <<"o", "r", "i", "g", "i", "n", "a", "l", " ", "n", "a", "m", "e", " ", "o", "n", " ", "t", "h", "e", " ", "m", "a", "p">>
MarkCatSlash ==
  <<"s", "o", "o", "r", "t", "n", "a", "a", "m", "/", "c", "a", "t", "e", "g", "o", "r", "y">>
MarkCatDutch ==
  <<"s", "o", "o", "r", "t", "n", "a", "a", "m">>
MarkCatEnglish ==
  <<"c", "a", "t", "e", "g", "o", "r", "y">>

UpperChars ==
  <<"A", "B", "C", "D", "E", "F", "G", "H", "I", "J", "K", "L", "M",
    "N", "O", "P", "Q", "R", "S", "T", "U", "V", "W", "X", "Y", "Z", "Ö">>
LowerChars ==
  <<"a", "b", "c", "d", "e", "f", "g", "h", "i", "j", "k", "l", "m",
    "n", "o", "p", "q", "r", "s", "t", "u", "v", "w", "x", "y", "z", "ö">>

\* String.prototype.toLowerCase
LowerOf(c) ==
  IF \E i \in 1..Len(UpperChars) : UpperChars[i] = c
  THEN LowerChars[CHOOSE i \in 1..Len(UpperChars) : UpperChars[i] = c]
  ELSE c

ToLowerCase(s) == [i \in 1..Len(s) |-> LowerOf(s[i])]

\* String.prototype.includes
Includes(s, sub) ==
  \E i \in 0..(Len(s) - Len(sub)) : SubSeq(s, i + 1, i + Len(sub)) = sub

\* Array.prototype.find over the keys of the first row: the index of the
\* first key among those that satisfy the test (hits holds their indices),
\* 0 when there is none
FirstKey(hits) ==
  IF hits = {} THEN 0
  ELSE CHOOSE i \in hits : \A j \in hits : i <= j

\* isNaN(Number(v)) for a string of digits, dots, signs and blanks: Number
\* accepts the whole trimmed string as a decimal literal, and "" as 0
NumberIsNaN(v) ==
  LET t    == Trim(v)
      body == IF t # <<>> /\ Head(t) \in {"+", "-"} THEN Tail(t) ELSE t
      ip   == DigitPrefix(body)
      rest == SubSeq(body, Len(ip) + 1, Len(body))
      fp   == IF rest # <<>> /\ Head(rest) = "." THEN DigitPrefix(Tail(rest))
              ELSE <<>>
      used == Len(ip) + (IF rest # <<>> /\ Head(rest) = "." THEN 1 + Len(fp) ELSE 0)
  IN  IF v = NonString THEN FALSE
      ELSE IF t = <<>> THEN FALSE
      ELSE ~(used = Len(body) /\ (ip # <<>> \/ fp # <<>>))

coordHeaderKey(first) ==
  FirstKey({i \in 1..Len(first) :
    \/ Includes(ToLowerCase(first[i].k), MarkCoordDutch)
    \/ Includes(ToLowerCase(first[i].k), MarkCoordEnglish)})

nameHeaderKey(first) ==
  FirstKey({i \in 1..Len(first) :
    \/ Includes(ToLowerCase(first[i].k), MarkNameDutch)
    \/ Includes(ToLowerCase(first[i].k), MarkNameEnglish)})

categoryHeaderKeyExact(first) ==
  FirstKey({i \in 1..Len(first) :
    \/ ToLowerCase(first[i].k) = MarkCatSlash
    \/ ToLowerCase(first[i].k) = MarkCatDutch
    \/ ToLowerCase(first[i].k) = MarkCatEnglish})

categoryHeaderKeyFallback(first) ==
  FirstKey({i \in 1..Len(first) :
    /\ \/ Includes(ToLowerCase(first[i].k), MarkCatDutch)
       \/ Includes(ToLowerCase(first[i].k), MarkCatEnglish)
    /\ first[i].v # <<>>
    /\ NumberIsNaN(first[i].v)})

\* variant: the fallback is tried before the exact literals
categoryHeaderKeyFallbackFirst(first) ==
  IF categoryHeaderKeyFallback(first) # 0 THEN categoryHeaderKeyFallback(first)
  ELSE categoryHeaderKeyExact(first)

categoryHeaderKey(first) ==
  IF categoryHeaderKeyExact(first) # 0 THEN categoryHeaderKeyExact(first)
  ELSE categoryHeaderKeyFallback(first)

\* row[headerKey] for a header found in the first row (index h, 0 for none)
LookupHeader(row, first, h) ==
  IF h = 0 THEN Undefined ELSE Lookup(row, first[h].k)

\* the header keys found in the first row, resolved once before the loop
headerKeys(first) ==
  [coord    |-> coordHeaderKey(first),
   name     |-> nameHeaderKey(first),
   category |-> categoryHeaderKey(first)]

\* one row of the loop of processUploadedCsv
ProcessCsvRow(row, rowRef, first, keys, acc) ==
  LET coordString  == LookupHeader(row, first, keys.coord)
      nameValue    == LookupHeader(row, first, keys.name)
      originalName == IF Truthy(nameValue) THEN nameValue.s ELSE StrNA
      catValue     == LookupHeader(row, first, keys.category)
      category     == IF Truthy(catValue) THEN Trim(catValue.s) ELSE StrUnknown
  IN  \* row[categoryHeaderKey].trim is not a function
      IF Truthy(catValue) /\ catValue.s = NonString
      THEN [acc EXCEPT !.threw = TRUE]
      ELSE EmitRow(coordString, originalName, category, rowRef, FALSE, acc)

\* for (const row of data), folded in order over the rows i .. endIndex - 1
RECURSIVE ProcessCsvRows(_, _, _, _, _, _)
ProcessCsvRows(data, i, endIndex, first, keys, acc) ==
  IF i >= endIndex \/ acc.threw THEN acc
  ELSE IF i + 1 = endIndex THEN ProcessCsvRow(data[i + 1], i, first, keys, acc)
  ELSE LET mid == (i + endIndex) \div 2
       IN  ProcessCsvRows(data, mid, endIndex, first, keys,
                          ProcessCsvRows(data, i, mid, first, keys, acc))

\* variant: the records pushed before the exception are returned
caughtResultPartial(acc) ==
  [points |-> acc.processed, hasError |-> TRUE, error |-> "exception message",
   pointIdCounter |-> acc.idCounter]

\* catch (error) { return { points: [], error: message } }
caughtResult(acc) ==
  [points |-> <<>>, hasError |-> TRUE, error |-> "exception message",
   pointIdCounter |-> acc.idCounter]

\* return { points } after the loop, or the catch block after an exception
csvReturn(acc) ==
  IF acc.threw THEN caughtResult(acc)
  ELSE [points |-> acc.processed, hasError |-> FALSE, error |-> "",
        pointIdCounter |-> acc.idCounter]

\* variant: the counter continues where the previous call left it
csvIdStartKept(counter) == counter

\* pointIdCounter = 0 at the start of every call, whatever it was
csvIdStart(counter) == 0

\* processUploadedCsv on an input that Papa.parse rejects with an exception
\* (text = FALSE) or parses into the rows data: the result returned and the
\* module-level pointIdCounter after the call
processUploadedCsv(input) ==
  IF ~input.text
  THEN [points |-> <<>>, hasError |-> TRUE, error |-> "exception message",
        pointIdCounter |-> csvIdStart(input.pointIdCounter)]
  ELSE IF Len(input.data) = 0
  THEN [points |-> <<>>, hasError |-> TRUE,
        error |-> "CSV is empty or has no data rows.",
        pointIdCounter |-> csvIdStart(input.pointIdCounter)]
  ELSE IF coordHeaderKey(input.data[1]) = 0
  THEN [points |-> <<>>, hasError |-> TRUE,
        error |-> "Required 'Coordinates' column not found. Please check CSV format.",
        pointIdCounter |-> csvIdStart(input.pointIdCounter)]
  ELSE csvReturn(ProcessCsvRows(input.data, 0, Len(input.data), input.data[1],
                                headerKeys(input.data[1]),
                                [processed |-> <<>>,
                                 idCounter |-> csvIdStart(input.pointIdCounter),
                                 cache |-> <<>>, threw |-> FALSE]))

\* ------------------------------------------------------ createOptimizedFilter
\* the sort keys with a meaning of their own, and the no-filter sentinel
KeyComputedLatitude ==
  <<"C", "o", "m", "p", "u", "t", "e", "d", " ", "L", "a", "t", "i", "t", "u", "d", "e">>
KeyComputedLongitude ==
  <<"C", "o", "m", "p", "u", "t", "e", "d", " ", "L", "o", "n", "g", "i", "t", "u", "d", "e">>
KeyParsedSegment ==
  <<"P", "a", "r", "s", "e", "d", " ", "C", "o", "o", "r", "d", "i", "n", "a", "t", "e", " ",
    "S", "e", "g", "m", "e", "n", "t">>
FilterAll == <<"a", "l", "l">>

\* An array is [fresh, items]: fresh tells whether it is a new array or the
\* array the caller passed in.  rowData of a point refers to a row of raw.

\* variant: the sentinel 'all' is compared like a category
categoryStageNoSentinel(cur, categoryFilter) ==
  IF categoryFilter # <<>>
  THEN [fresh |-> TRUE,
        items |-> SelectSeq(cur.items, LAMBDA p : p.category = categoryFilter)]
  ELSE cur

\* if (categoryFilter && categoryFilter !== 'all') currentPoints = filter(...)
categoryStage(cur, categoryFilter) ==
  IF categoryFilter # <<>> /\ categoryFilter # FilterAll
  THEN [fresh |-> TRUE,
        items |-> SelectSeq(cur.items, LAMBDA p : p.category = categoryFilter)]
  ELSE cur

\* variant: the values of rowData are not searched
matchesSearchFieldsOnly(point, row, lowerCaseQuery) ==
  \/ Includes(ToLowerCase(point.originalName), lowerCaseQuery)
  \/ Includes(ToLowerCase(point.category), lowerCaseQuery)
  \/ Includes(ToLowerCase(point.originalCoords), lowerCaseQuery)

\* the predicate of the search filter; the values of a row are strings
matchesSearch(point, row, lowerCaseQuery) ==
  \/ Includes(ToLowerCase(point.originalName), lowerCaseQuery)
  \/ Includes(ToLowerCase(point.category), lowerCaseQuery)
  \/ Includes(ToLowerCase(point.originalCoords), lowerCaseQuery)
  \/ \E i \in 1..Len(row) : Includes(ToLowerCase(row[i].v), lowerCaseQuery)

\* variant: find instead of filter, only the first match is kept
searchStageFirstMatch(cur, raw, searchQuery) ==
  IF Trim(searchQuery) # <<>>
  THEN [fresh |-> TRUE,
        items |-> LET kept == SelectSeq(cur.items,
                    LAMBDA p : matchesSearch(p, raw[p.rowData + 1],
                                             ToLowerCase(searchQuery)))
                  IN  IF kept = <<>> THEN kept ELSE <<kept[1]>>]
  ELSE cur

\* if (searchQuery.trim() !== '') currentPoints = filter(...)
searchStage(cur, raw, searchQuery) ==
  IF Trim(searchQuery) # <<>>
  THEN [fresh |-> TRUE,
        items |-> SelectSeq(cur.items,
                    LAMBDA p : matchesSearch(p, raw[p.rowData + 1],
                                             ToLowerCase(searchQuery)))]
  ELSE cur

\* aValue / bValue: a number for the two computed keys, else a string
sortValue(point, row, key) ==
  CASE key = KeyComputedLatitude ->
         [num |-> TRUE, n |-> point.latitude, s |-> <<>>]
    [] key = KeyComputedLongitude ->
         [num |-> TRUE, n |-> point.longitude, s |-> <<>>]
    [] key = KeyParsedSegment ->
         [num |-> FALSE, n |-> 0, s |-> point.originalCoords]
    [] OTHER ->
         [num |-> FALSE, n |-> 0,
          s |-> IF Truthy(Lookup(row, key)) THEN Lookup(row, key).s ELSE <<>>]

\* the collation order of the characters that occur in lower-cased values:
\* blank, punctuation, digits, letters
CollationOrder ==
  <<" ", "-", "?", ".", "/", "+",
    "0", "1", "2", "3", "4", "5", "6", "7", "8", "9",
    "a", "b", "c", "d", "e", "f", "g", "h", "i", "j", "k", "l", "m",
    "n", "o", "p", "q", "r", "s", "t", "u", "v", "w", "x", "y", "z">>

CollationRank(c) == CHOOSE i \in 1..Len(CollationOrder) : CollationOrder[i] = c

\* a.localeCompare(b) on lower-cased strings: negative, zero or positive
RECURSIVE localeCompare(_, _)
localeCompare(a, b) ==
  IF a = <<>> THEN (IF b = <<>> THEN 0 ELSE 0 - 1)
  ELSE IF b = <<>> THEN 1
  ELSE IF CollationRank(Head(a)) < CollationRank(Head(b)) THEN 0 - 1
  ELSE IF CollationRank(Head(a)) > CollationRank(Head(b)) THEN 1
  ELSE localeCompare(Tail(a), Tail(b))

\* variant: the direction is ignored
compareValuesAscending(aValue, bValue, direction) ==
  IF aValue.num /\ bValue.num THEN aValue.n - bValue.n
  ELSE localeCompare(ToLowerCase(aValue.s), ToLowerCase(bValue.s))

\* the comparator given to sort, on the two values
compareValues(aValue, bValue, direction) ==
  IF aValue.num /\ bValue.num
  THEN IF direction = "asc" THEN aValue.n - bValue.n ELSE bValue.n - aValue.n
  ELSE IF direction = "asc"
  THEN localeCompare(ToLowerCase(aValue.s), ToLowerCase(bValue.s))
  ELSE localeCompare(ToLowerCase(bValue.s), ToLowerCase(aValue.s))

comparePoints(a, b, raw, sortConfig) ==
  compareValues(sortValue(a, raw[a.rowData + 1], sortConfig.key),
                sortValue(b, raw[b.rowData + 1], sortConfig.key),
                sortConfig.direction)

\* variant: an element goes in front of the elements that compare equal
RECURSIVE SortInsertBeforeEqual(_, _, _, _)
SortInsertBeforeEqual(sorted, x, raw, sortConfig) ==
  IF sorted = <<>> THEN <<x>>
  ELSE IF comparePoints(sorted[Len(sorted)], x, raw, sortConfig) >= 0
  THEN Append(SortInsertBeforeEqual(SubSeq(sorted, 1, Len(sorted) - 1), x, raw,
                                    sortConfig),
              sorted[Len(sorted)])
  ELSE Append(sorted, x)

\* Array.prototype.sort is stable: an element goes behind every element that
\* does not compare greater than it
RECURSIVE SortInsert(_, _, _, _)
SortInsert(sorted, x, raw, sortConfig) ==
  IF sorted = <<>> THEN <<x>>
  ELSE IF comparePoints(sorted[Len(sorted)], x, raw, sortConfig) > 0
  THEN Append(SortInsert(SubSeq(sorted, 1, Len(sorted) - 1), x, raw, sortConfig),
              sorted[Len(sorted)])
  ELSE Append(sorted, x)

RECURSIVE ArraySort(_, _, _)
ArraySort(items, raw, sortConfig) ==
  IF items = <<>> THEN <<>>
  ELSE SortInsert(ArraySort(SubSeq(items, 1, Len(items) - 1), raw, sortConfig),
                  items[Len(items)], raw, sortConfig)

\* variant: currentPoints.sort(...) without the copy
sortTargetInPlace(cur) == cur

\* [...currentPoints]: the array that sort works on
sortTarget(cur) == [fresh |-> TRUE, items |-> cur.items]

\* sort rearranges the array it is called on and returns it
sortInPlace(arr, raw, sortConfig) ==
  [fresh |-> arr.fresh, items |-> ArraySort(arr.items, raw, sortConfig)]

\* if (sortConfig) currentPoints = [...currentPoints].sort(...)
sortStage(cur, raw, sortConfig) ==
  IF sortConfig.null THEN cur
  ELSE sortInPlace(sortTarget(cur), raw, sortConfig)

\* return currentPoints: the returned sequence, and the contents of the
\* caller's array after the call
filterReturn(cur, points) ==
  [result |-> cur.items, points |-> IF cur.fresh THEN points ELSE cur.items]

createOptimizedFilter(points, raw, categoryFilter, searchQuery, sortConfig) ==
  filterReturn(
    sortStage(searchStage(categoryStage([fresh |-> FALSE, items |-> points],
                                        categoryFilter),
                          raw, searchQuery),
              raw, sortConfig),
    points)

\* ------------------------------------------------- worker: optimizedFilter
\* if (categoryFilter && categoryFilter !== '') filtered = filter(...)
workerCategoryStage(filtered, categoryFilter) ==
  IF categoryFilter # <<>>
  THEN SelectSeq(filtered, LAMBDA p : p.category = categoryFilter)
  ELSE filtered

\* the predicate of the worker's search filter
workerMatchesSearch(point, query) ==
  \/ Includes(ToLowerCase(point.originalName), query)
  \/ Includes(ToLowerCase(point.category), query)
  \/ Includes(ToLowerCase(point.originalCoords), query)

\* if (searchQuery && searchQuery.trim() !== '') with
\* query = searchQuery.toLowerCase().trim()
workerSearchStage(filtered, searchQuery) ==
  IF searchQuery # <<>> /\ Trim(searchQuery) # <<>>
  THEN SelectSeq(filtered,
         LAMBDA p : workerMatchesSearch(p, Trim(ToLowerCase(searchQuery))))
  ELSE filtered

\* the order of the UTF-16 code units of the characters that occur in
\* lower-cased values
CodeUnitOrder ==
  <<" ", "+", "-", ".", "/",
    "0", "1", "2", "3", "4", "5", "6", "7", "8", "9", "?",
    "a", "b", "c", "d", "e", "f", "g", "h", "i", "j", "k", "l", "m",
    "n", "o", "p", "q", "r", "s", "t", "u", "v", "w", "x", "y", "z">>

CodeUnitRank(c) == CHOOSE i \in 1..Len(CodeUnitOrder) : CodeUnitOrder[i] = c

\* a < b on strings
RECURSIVE StringLess(_, _)
StringLess(a, b) ==
  IF b = <<>> THEN FALSE
  ELSE IF a = <<>> THEN TRUE
  ELSE IF CodeUnitRank(Head(a)) < CodeUnitRank(Head(b)) THEN TRUE
  ELSE IF CodeUnitRank(Head(a)) > CodeUnitRank(Head(b)) THEN FALSE
  ELSE StringLess(Tail(a), Tail(b))

\* aVal < bVal, after both strings were lower-cased
workerLess(aVal, bVal) ==
  IF aVal.num /\ bVal.num THEN aVal.n < bVal.n
  ELSE StringLess(ToLowerCase(aVal.s), ToLowerCase(bVal.s))

\* the comparator given to sort by the worker
workerCompareValues(aVal, bVal, direction) ==
  IF workerLess(aVal, bVal) THEN (IF direction = "asc" THEN 0 - 1 ELSE 1)
  ELSE IF workerLess(bVal, aVal) THEN (IF direction = "asc" THEN 1 ELSE 0 - 1)
  ELSE 0

workerComparePoints(a, b, raw, sortConfig) ==
  workerCompareValues(sortValue(a, raw[a.rowData + 1], sortConfig.key),
                      sortValue(b, raw[b.rowData + 1], sortConfig.key),
                      sortConfig.direction)

RECURSIVE WorkerSortInsert(_, _, _, _)
WorkerSortInsert(sorted, x, raw, sortConfig) ==
  IF sorted = <<>> THEN <<x>>
  ELSE IF workerComparePoints(sorted[Len(sorted)], x, raw, sortConfig) > 0
  THEN Append(WorkerSortInsert(SubSeq(sorted, 1, Len(sorted) - 1), x, raw,
                               sortConfig),
              sorted[Len(sorted)])
  ELSE Append(sorted, x)

RECURSIVE WorkerArraySort(_, _, _)
WorkerArraySort(items, raw, sortConfig) ==
  IF items = <<>> THEN <<>>
  ELSE WorkerSortInsert(WorkerArraySort(SubSeq(items, 1, Len(items) - 1), raw,
                                        sortConfig),
                        items[Len(items)], raw, sortConfig)

\* if (sortConfig) filtered = [...filtered].sort(...)
workerSortStage(filtered, raw, sortConfig) ==
  IF sortConfig.null THEN filtered
  ELSE WorkerArraySort(filtered, raw, sortConfig)

\* optimizedFilter(points, categoryFilter, searchQuery, sortConfig) of the
\* worker, on the copies of the points that FILTER_DATA carries
optimizedFilter(points, raw, categoryFilter, searchQuery, sortConfig) ==
  workerSortStage(workerSearchStage(workerCategoryStage(points, categoryFilter),
                                    searchQuery),
                  raw, sortConfig)

\* ------------------------------------------------------------------ inputs
\* well-formed pairs, every hemisphere letter in both cases, the limits 90 and 180
HemisphereTokens ==
  { <<"1", "2", "-", "3", "0", "N", "/", "9", "2", "-", "5", "0", "E">>,
    <<"1", "2", "-", "3", "0", "N", "/", "9", "2", "-", "5", "0", "W">>,
    <<"1", "2", "-", "3", "0", "N", "/", "1", "8", "0", "e">>,
    <<"1", "2", "-", "3", "0", "N", "/", "1", "7", "9", "-", "6", "0", "w">>,
    <<"1", "2", "-", "3", "0", "S", "/", "9", "2", "-", "5", "0", "E">>,
    <<"1", "2", "-", "3", "0", "S", "/", "9", "2", "-", "5", "0", "W">>,
    <<"1", "2", "-", "3", "0", "S", "/", "1", "8", "0", "e">>,
    <<"1", "2", "-", "3", "0", "S", "/", "1", "7", "9", "-", "6", "0", "w">>,
    <<"9", "0", "n", "/", "9", "2", "-", "5", "0", "E">>,
    <<"9", "0", "n", "/", "9", "2", "-", "5", "0", "W">>,
    <<"9", "0", "n", "/", "1", "8", "0", "e">>,
    <<"9", "0", "n", "/", "1", "7", "9", "-", "6", "0", "w">>,
    <<"8", "9", "-", "6", "0", "s", "/", "9", "2", "-", "5", "0", "E">>,
    <<"8", "9", "-", "6", "0", "s", "/", "9", "2", "-", "5", "0", "W">>,
    <<"8", "9", "-", "6", "0", "s", "/", "1", "8", "0", "e">>,
    <<"8", "9", "-", "6", "0", "s", "/", "1", "7", "9", "-", "6", "0", "w">> }

\* accepted forms: blanks around the halves, decimals, seconds, a fourth component, a numeric prefix
OddValidTokens ==
  { <<" ", "1", ".", "5", "N", " ", "/", " ", "7", ".", "5", "-", "3", "0", "e", " ">>,
    <<"1", "2", "-", "3", "0", "-", "3", "6", "N", "/", "0", "W">>,
    <<"1", "-", "2", "-", "3", "-", "4", "N", "/", "0", "E">>,
    <<"1", ".", "2", ".", "3", "N", "/", "0", "E">>,
    <<"5", ".", "N", "/", ".", "5", "E">> }

\* values just beyond and well beyond the limits
OutOfRangeTokens ==
  { <<"9", "0", "-", "0", "-", "1", "N", "/", "0", "E">>,
    <<"9", "1", "S", "/", "0", "E">>,
    <<"0", "N", "/", "1", "8", "0", "-", "0", "-", "1", "E">>,
    <<"0", "N", "/", "1", "8", "1", "W">> }

\* runs with a component that is not a number
BadNumberTokens ==
  { <<"-", "5", "N", "/", "0", "E">>,
    <<"5", "-", "-", "3", "N", "/", "0", "E">>,
    <<".", "N", "/", "0", "E">>,
    <<"0", "N", "/", "5", "-", "E">> }

\* a missing or wrong hemisphere letter, swapped halves, a foreign character
BadHemisphereTokens ==
  { <<"1", "2", "-", "3", "0", "/", "9", "2", "-", "5", "0", "E">>,
    <<"9", "2", "-", "5", "0", "E", "/", "1", "2", "-", "3", "0", "N">>,
    <<"1", "2", "-", "3", "0", "N", "/", "9", "2", "-", "5", "0">>,
    <<"1", "2", "x", "3", "0", "N", "/", "0", "E">>,
    <<"1", "2", "-", "3", "0", "E", "/", "9", "2", "-", "5", "0", "N">>,
    <<"N", "/", "0", "E">> }

\* no slash, an empty half, more than two parts
BadSplitTokens ==
  { <<"1", "2", "-", "3", "0", "N">>,
    <<"/", "9", "2", "-", "5", "0", "E">>,
    <<"1", "2", "-", "3", "0", "N", "/">>,
    <<"1", "2", "-", "3", "0", "N", "/", "/", "9", "2", "-", "5", "0", "E">>,
    <<"1", "2", "-", "3", "0", "N", "/", "9", "2", "-", "5", "0", "E", "/", "7", "W">>,
    <<"1", "2", "-", "3", "0", "N", "/", "9", "2", "-", "5", "0", "E", "/">> }

\* the empty string, blank strings and the two placeholders
PlaceholderTokens ==
  { <<>>,
    <<" ">>,
    <<" ", "\t">>,
    <<"-">>,
    <<"?", "?">> }

\* strings that resemble a placeholder but are not one
NearPlaceholderTokens ==
  { <<" ", "-", " ">>,
    <<"?">> }

Tokens ==
  HemisphereTokens \cup OddValidTokens \cup OutOfRangeTokens \cup BadNumberTokens
  \cup BadHemisphereTokens \cup BadSplitTokens \cup PlaceholderTokens \cup NearPlaceholderTokens

\* arguments of dmsToDecimal: one to four components, and unparseable ones
DmsRuns ==
  { <<"1", "2">>,
    <<"1", "2", "-", "3", "0">>,
    <<"1", "2", "-", "3", "0", "-", "3", "6">>,
    <<"1", "-", "2", "-", "3", "-", "4">>,
    <<"1", ".", "5", "-", ".", "5">>,
    <<"1", ".", "2", ".", "3">>,
    <<>>,
    <<"-", "5">>,
    <<"5", "-", "-", "3">>,
    <<"5", "-">>,
    <<".">>,
    <<"1", "2", "-", " ", "3", "0">> }


\* the rows the passes are run on
\* one valid pair, English column names
RowSingle ==
  <<[k |-> KeyCoordEnglish, v |-> <<"1", "2", "-", "3", "0", "N", "/", "9", "2", "-", "5", "0", "E">>],
     [k |-> KeyCatEnglish, v |-> <<"r", "i", "v", "e", "r">>],
     [k |-> KeyNameEnglish, v |-> <<"A", "a">>]>>
\* two pairs joined by '+', bilingual column names
RowDouble ==
  <<[k |-> KeyNameSlash, v |-> <<"B", "b">>],
     [k |-> KeyCatSlash, v |-> <<"t", "o", "w", "n">>],
     [k |-> KeyCoordSlash, v |-> <<"1", "2", "-", "3", "0", "N", "/", "9", "2", "-", "5", "0", "E", "+", "1", "3", "-", "0", "N", "/", "9", "3", "-", "0", "E">>]>>
\* the ?? placeholder
RowUnknownPlace ==
  <<[k |-> KeyCoordEnglish, v |-> <<"?", "?">>],
     [k |-> KeyCatEnglish, v |-> <<"r", "i", "v", "e", "r">>],
     [k |-> KeyNameEnglish, v |-> <<"C", "c">>]>>
\* valid, out of range, placeholder, empty, repeated and unparseable segments; empty category, no name
RowMixed ==
  <<[k |-> KeyCoordEnglish, v |-> <<"1", "2", "-", "3", "0", "N", "/", "9", "2", "-", "5", "0", "E", " ", "+", " ", "9", "1", "N", "/", "0", "E", "+", "-", "+", " ", "+", "1", "2", "-", "3", "0", "N", "/", "9", "2", "-", "5", "0", "E", "+", "x">>],
     [k |-> KeyCatEnglish, v |-> <<>>]>>
\* no coordinate column at all
RowNoCoordColumn ==
  <<[k |-> KeyCatEnglish, v |-> <<"r", "i", "v", "e", "r">>],
     [k |-> KeyNameEnglish, v |-> <<"D", "d">>]>>
\* a blank coordinate value
RowBlank ==
  <<[k |-> KeyCoordEnglish, v |-> <<" ", " ">>],
     [k |-> KeyCatEnglish, v |-> <<"h", "i", "l", "l">>]>>
\* the - placeholder, the Dutch category column
RowDash ==
  <<[k |-> KeyCoordEnglish, v |-> <<"-">>],
     [k |-> KeyCatDutch, v |-> <<"h", "i", "l", "l">>]>>
\* two different pairs with the same latitude, then the first pair again
RowRepeated ==
  <<[k |-> KeyCoordEnglish, v |-> <<"1", "N", "/", "2", "E", "+", "1", "N", "/", "3", "E", "+", "1", "N", "/", "2", "E">>],
     [k |-> KeyCatEnglish, v |-> <<"b", "a", "y">>],
     [k |-> KeyNameEnglish, v |-> <<"F", "f">>]>>
\* a coordinate value that is a number, not a string
RowNumber ==
  <<[k |-> KeyCoordEnglish, v |-> NonString],
     [k |-> KeyCatEnglish, v |-> <<"b", "a", "y">>]>>
\* a category of blanks only
RowBlankCategory ==
  <<[k |-> KeyCoordEnglish, v |-> <<"0", "N", "/", "0", "E">>],
     [k |-> KeyCatEnglish, v |-> <<" ">>],
     [k |-> KeyNameEnglish, v |-> <<"G", "g">>]>>
\* two coordinate columns, the English one first; no name and no category column
RowTwoCoordColumns ==
  <<[k |-> KeyCoordEnglish, v |-> <<"6", "N", "/", "6", "E">>],
     [k |-> KeyCoordDutch, v |-> <<"5", "N", "/", "5", "E">>]>>
\* both joined coordinate headers, with different values
RowBothJoins ==
  <<[k |-> KeyCoordSlash, v |-> <<"5", "N", "/", "5", "E">>],
     [k |-> KeyCoordNewline, v |-> <<"6", "N", "/", "6", "E">>],
     [k |-> KeyCatEnglish, v |-> <<"b", "a", "y">>]>>
RowSet ==
  {RowSingle,
   RowDouble,
   RowUnknownPlace,
   RowMixed,
   RowNoCoordColumn,
   RowBlank,
   RowDash,
   RowRepeated,
   RowNumber,
   RowBlankCategory,
   RowTwoCoordColumns}

\* ------------------------------------------------------------------ bounds
\* rows of the short inputs
MaxRows == 2

\* every row sequence of at most MaxRows rows
ShortInputs == UNION {[1..n -> RowSet] : n \in 0..MaxRows}

\* n rows that repeat a pattern
Repeat(pattern, n) == [i \in 1..n |-> pattern[((i - 1) % Len(pattern)) + 1]]

\* inputs of one chunk exactly, and of one row more
LongInputs ==
  {Repeat(<<RowSingle>>, chunkSize),
   Repeat(<<RowDouble, RowUnknownPlace>>, chunkSize),
   Repeat(<<RowMixed, RowSingle, RowNoCoordColumn>>, chunkSize + 1),
   Repeat(<<RowDouble>>, chunkSize + 1),
   [i \in 1..(chunkSize + 1) |-> IF i = chunkSize + 1 THEN RowNumber ELSE RowSingle]}

\* rows that carry a header in both of its joined spellings
JoinedInputs == {<<RowBothJoins>>, <<RowSingle, RowBothJoins>>}

Inputs == ShortInputs \cup LongInputs \cup JoinedInputs

\* the rows whose records are filtered: equal and different categories, names
\* and coordinates, records with equal sort keys, missing columns
FilterRowSet ==
  {RowSingle, RowDouble, RowMixed, RowRepeated, RowBlankCategory,
   RowTwoCoordColumns}

FilterInputs == UNION {[1..n -> FilterRowSet] : n \in 0..MaxRows}

\* no filter (empty, 'all'), a category of some records, the default category
CategoryFilters ==
  {<<>>, FilterAll, <<"b", "a", "y">>, StrUnknown}

\* blank queries, a query in upper case that matches names and categories,
\* one that matches coordinates, one that matches only a value of rowData
SearchQueries ==
  {<<>>, <<" ">>, <<"B">>, <<"2", "e">>, <<"E", "+", "1">>}

NoSort == [null |-> TRUE, key |-> <<>>, direction |-> "asc"]

SortConfigs ==
  {NoSort,
   [null |-> FALSE, key |-> KeyComputedLatitude, direction |-> "asc"],
   [null |-> FALSE, key |-> KeyComputedLongitude, direction |-> "desc"],
   [null |-> FALSE, key |-> KeyParsedSegment, direction |-> "asc"],
   [null |-> FALSE, key |-> KeyCatEnglish, direction |-> "desc"],
   [null |-> FALSE, key |-> KeyCoordDutch, direction |-> "asc"]}

\* ------------------------------------------------------- parser state machine
VARIABLES
  coordinateCache,  \* data-processing.ts: the module-level Map of parse results
  ret,              \* the last call: operation, argument, returned value
  calls,            \* number of parser calls made so far
  raws,             \* the row array given to each materialization pass
  main,             \* processRawData: the state of each pass
  worker,           \* the worker: loop state, own cache, posted messages
  csv,              \* processUploadedCsv: calls made and the last result
  pointIdCounter,   \* actions.ts: the module-level id counter
  filter,           \* createOptimizedFilter: the last call and its results
  client            \* DataWorkerClient, its worker and the messages between them

varsParse == <<coordinateCache, ret, calls>>
varsPass == <<raws, main, worker, csv, pointIdCounter, filter, client>>
vars ==
  <<coordinateCache, ret, calls, raws, main, worker, csv, pointIdCounter, filter,
    client>>

NoCall ==
  [op |-> "none", arg |-> <<>>, val |-> Null, num |-> NaN, fromCache |-> FALSE]

IdlePass == [state |-> "idle", startIndex |-> 0, processed |-> <<>>]

IdleWorker ==
  [state |-> "idle", i |-> 0, processed |-> <<>>, idCounter |-> 0,
   cache |-> <<>>, outbox |-> <<>>]

NoCsvCall ==
  [called |-> FALSE, text |-> TRUE,
   result |-> [points |-> <<>>, hasError |-> FALSE, error |-> "",
               pointIdCounter |-> 0]]

NoFilterCall ==
  [called |-> FALSE, reapplied |-> FALSE,
   categoryFilter |-> <<>>, searchQuery |-> <<>>, sortConfig |-> NoSort,
   before |-> <<>>, result |-> <<>>, again |-> <<>>,
   viaWorker |-> FALSE, workerResult |-> <<>>]

\* a DataWorkerClient after its constructor, with its worker: the message
\* listeners added to the worker (the ids of the calls that added them, in
\* order), the calls made with their promises, the messages in flight in both
\* directions, the PROCESS_DATA handlers of the worker that await their
\* timer, and the requests whose COMPLETE or ERROR has been dispatched
NoClient ==
  [worker |-> TRUE, isProcessing |-> FALSE, listeners |-> <<>>,
   calls |-> <<>>, toWorker |-> <<>>, handlers |-> {}, fromWorker |-> <<>>,
   answered |-> {}]

InitParse ==
  /\ coordinateCache = <<>>
  /\ ret = NoCall
  /\ calls = 0
  /\ raws = <<>>
  /\ main = <<>>
  /\ worker = IdleWorker
  /\ csv = NoCsvCall
  /\ pointIdCounter = 0
  /\ filter = NoFilterCall
  /\ client = NoClient

\* a call of the cached parser of data-processing.ts
ParseCall(tok) ==
  /\ calls < MaxCalls
  /\ LET r == parseSingleCoordinateEntry(tok, coordinateCache)
     IN  /\ coordinateCache' = r.cache
         /\ ret' = [op |-> "parse", arg |-> tok, val |-> r.val, num |-> NaN,
                    \* whether the return of line 30 was taken
                    fromCache |-> ~IsPlaceholder(tok)
                                  /\ tok \in DOMAIN coordinateCache]
  /\ calls' = calls + 1
  /\ UNCHANGED varsPass

\* a call of the cache-free parser of actions.ts
CsvParseCall(tok) ==
  /\ calls < MaxCalls
  /\ ret' = [op |-> "parseCsv", arg |-> tok,
             val |-> parseSingleCoordinateEntryCsv(tok), num |-> NaN,
             fromCache |-> FALSE]
  /\ calls' = calls + 1
  /\ UNCHANGED <<coordinateCache, varsPass>>

\* a call of dmsToDecimal
DmsCall(run) ==
  /\ calls < MaxCalls
  /\ ret' = [op |-> "dms", arg |-> run, val |-> Null, num |-> dmsToDecimal(run),
             fromCache |-> FALSE]
  /\ calls' = calls + 1
  /\ UNCHANGED <<coordinateCache, varsPass>>

NextParse ==
  \/ \E tok \in Tokens : ParseCall(tok)
  \/ \E tok \in Tokens : CsvParseCall(tok)
  \/ \E run \in DmsRuns : DmsCall(run)

SpecParse == InitParse /\ [][NextParse]_vars

\* ------------------------------------------------ materialization passes
\* one pass of each kind over the same rows
InitPass ==
  /\ coordinateCache = <<>>
  /\ ret = NoCall
  /\ calls = 0
  /\ \E raw \in Inputs : raws = <<raw>>
  /\ main = <<IdlePass>>
  /\ worker = IdleWorker
  /\ csv = NoCsvCall
  /\ pointIdCounter = 0
  /\ filter = NoFilterCall
  /\ client = NoClient

\* processRawData(raw): the promise executor runs processChunk(0, [])
\* at once; an exception there rejects the promise
CallProcessRawData(p) ==
  /\ main[p].state = "idle"
  /\ \E r \in {processChunk(raws[p], 0, <<>>, coordinateCache)} :
       /\ main' = [main EXCEPT ![p] =
                     [state |-> IF r.outcome = "threw" THEN "rejected"
                                ELSE r.outcome,
                      startIndex |-> r.endIndex,
                      processed |-> r.processed]]
       /\ coordinateCache' = r.cache
  /\ UNCHANGED <<ret, calls, raws, worker, csv, pointIdCounter, filter, client>>

\* the idle callback or timer runs processChunk(endIndex, processed); an
\* exception there is uncaught and the promise stays pending
RunScheduledChunk(p) ==
  /\ main[p].state = "scheduled"
  /\ \E r \in {processChunk(raws[p], main[p].startIndex, main[p].processed,
                            coordinateCache)} :
       /\ main' = [main EXCEPT ![p] =
                     [state |-> IF r.outcome = "threw" THEN "stuck"
                                ELSE r.outcome,
                      startIndex |-> r.endIndex,
                      processed |-> r.processed]]
       /\ coordinateCache' = r.cache
  /\ UNCHANGED <<ret, calls, raws, worker, csv, pointIdCounter, filter, client>>

\* the worker receives PROCESS_DATA and runs the loop up to its first await
WorkerReceiveProcessData ==
  /\ worker.state = "idle"
  /\ worker' = workerLoop(raws[1], 0, worker)
  /\ UNCHANGED <<coordinateCache, ret, calls, raws, main, csv, pointIdCounter,
               filter, client>>

\* the timer of the await fires: i += chunkSize and the loop continues
WorkerTimerFires ==
  /\ worker.state = "awaiting"
  /\ worker' = workerLoop(raws[1], worker.i + workerChunkSize, worker)
  /\ UNCHANGED <<coordinateCache, ret, calls, raws, main, csv, pointIdCounter,
               filter, client>>

\* a call of processUploadedCsv; it has no await, so it runs to its return
CallProcessUploadedCsv(text) ==
  /\ \E r \in {processUploadedCsv([text |-> text, data |-> raws[1],
                                      pointIdCounter |-> pointIdCounter])} :
       /\ csv' = [called |-> TRUE, text |-> text, result |-> r]
       /\ pointIdCounter' = r.pointIdCounter
  /\ UNCHANGED <<coordinateCache, ret, calls, raws, main, worker, filter, client>>

NextPass ==
  \/ \E p \in DOMAIN main : CallProcessRawData(p)
  \/ \E p \in DOMAIN main : RunScheduledChunk(p)
  \/ WorkerReceiveProcessData
  \/ WorkerTimerFires
  \/ \E text \in BOOLEAN : CallProcessUploadedCsv(text)

SpecPass == InitPass /\ [][NextPass]_vars

\* ------------------------------------------------- specification: the filter
\* the rows are materialized by processRawData, then its records are filtered
InitFilter ==
  /\ coordinateCache = <<>>
  /\ ret = NoCall
  /\ calls = 0
  /\ \E raw \in FilterInputs : raws = <<raw>>
  /\ main = <<IdlePass>>
  /\ worker = IdleWorker
  /\ csv = NoCsvCall
  /\ pointIdCounter = 0
  /\ filter = NoFilterCall
  /\ client = NoClient

\* createOptimizedFilter(points, categoryFilter, searchQuery, sortConfig) on
\* the resolved array of the pass; the array is the caller's, so whatever the
\* call does to it shows in the pass's records
ApplyFilter(categoryFilter, searchQuery, sortConfig) ==
  /\ main[1].state = "resolved"
  /\ ~filter.called
  /\ \E r \in {createOptimizedFilter(main[1].processed, raws[1], categoryFilter,
                                      searchQuery, sortConfig)} :
       /\ filter' = [called |-> TRUE, reapplied |-> FALSE,
                     categoryFilter |-> categoryFilter,
                     searchQuery |-> searchQuery, sortConfig |-> sortConfig,
                     before |-> main[1].processed,
                     result |-> r.result, again |-> <<>>,
                     viaWorker |-> FALSE, workerResult |-> <<>>]
       /\ main' = [main EXCEPT ![1].processed = r.points]
  /\ UNCHANGED <<coordinateCache, ret, calls, raws, worker, csv, pointIdCounter,
            client>>

\* the same call on the sequence the first call returned
ReapplyFilter ==
  /\ filter.called
  /\ ~filter.reapplied
  /\ \E r \in {createOptimizedFilter(filter.result, raws[1],
                                      filter.categoryFilter, filter.searchQuery,
                                      filter.sortConfig)} :
       filter' = [filter EXCEPT !.reapplied = TRUE,
                                !.result = r.points,
                                !.again = r.result]
  /\ UNCHANGED <<coordinateCache, ret, calls, raws, main, worker, csv,
                 pointIdCounter, client>>

\* DataWorkerClient.filterData with the arguments of the first call: the
\* worker answers FILTER_DATA with COMPLETE and optimizedFilter's return
WorkerFilterData ==
  /\ filter.called
  /\ ~filter.viaWorker
  /\ \E r \in {optimizedFilter(filter.before, raws[1], filter.categoryFilter,
                                filter.searchQuery, filter.sortConfig)} :
       filter' = [filter EXCEPT !.viaWorker = TRUE, !.workerResult = r]
  /\ UNCHANGED <<coordinateCache, ret, calls, raws, main, worker, csv,
                 pointIdCounter, client>>

NextFilter ==
  \/ CallProcessRawData(1)
  \/ \E f \in CategoryFilters, q \in SearchQueries, s \in SortConfigs :
       ApplyFilter(f, q, s)
  \/ ReapplyFilter
  \/ WorkerFilterData

SpecFilter == InitFilter /\ [][NextFilter]_vars

\* -------------------------------- header resolution of processUploadedCsv
\* header keys that contain a category marker without being equal to one,
\* and the values a first row may hold under a category-like key
KeyCatCode == KeyCatEnglish \o <<" ", "c", "o", "d", "e">>
KeyCatDutchNr == KeyCatDutch \o <<" ", "n", "r">>

HeaderColumns ==
  {[k |-> key, v |-> val] :
     key \in {KeyCatEnglish, KeyCatCode, KeyCatDutchNr},
     val \in {<<"1", "2">>, <<"h", "i", "l", "l">>, <<>>, <<" ">>}}

\* first rows: a coordinate column followed by up to two columns with
\* different category-like keys
HeaderFirstRows ==
  LET coord == [k |-> KeyCoordEnglish, v |-> <<"1", "N", "/", "2", "E">>]
  IN  {<<coord>>}
      \cup {<<coord, c>> : c \in HeaderColumns}
      \cup {<<coord, c[1], c[2]>> :
              c \in {x \in HeaderColumns \X HeaderColumns : x[1].k # x[2].k}}

\* the parsed rows: a first row alone or followed by a row with the exact
\* category key
InitHeader ==
  /\ coordinateCache = <<>>
  /\ ret = NoCall
  /\ calls = 0
  /\ \E first \in HeaderFirstRows :
       raws \in {<<(<<first>>)>>, <<(<<first, RowSingle>>)>>}
  /\ main = <<IdlePass>>
  /\ worker = IdleWorker
  /\ csv = NoCsvCall
  /\ pointIdCounter = 0
  /\ filter = NoFilterCall
  /\ client = NoClient

NextHeader == \E text \in BOOLEAN : CallProcessUploadedCsv(text)

SpecHeader == InitHeader /\ [][NextHeader]_vars

\* ------------------------------------------------- passes that overlap
\* two processRawData passes in flight at once, their chunks interleaved in
\* any order on the one coordinate cache, and calls of processUploadedCsv in
\* between on the one pointIdCounter
OverlapInputs ==
  {<<>>,
   <<RowSingle>>,
   <<RowRepeated, RowSingle>>,
   Repeat(<<RowMixed, RowSingle, RowNoCoordColumn>>, chunkSize + 1),
   Repeat(<<RowDouble, RowRepeated>>, chunkSize + 1)}

InitOverlap ==
  /\ coordinateCache = <<>>
  /\ ret = NoCall
  /\ calls = 0
  /\ raws \in OverlapInputs \X OverlapInputs
  /\ main = <<IdlePass, IdlePass>>
  /\ worker = IdleWorker
  /\ csv = NoCsvCall
  /\ pointIdCounter = 0
  /\ filter = NoFilterCall
  /\ client = NoClient

NextOverlap ==
  \/ \E p \in DOMAIN main : CallProcessRawData(p)
  \/ \E p \in DOMAIN main : RunScheduledChunk(p)
  \/ \E text \in BOOLEAN : CallProcessUploadedCsv(text)

SpecOverlap == InitOverlap /\ [][NextOverlap]_vars

\* ------------------------------------------------------- DataWorkerClient
MaxClientCalls == 3

\* the requests of the calls: rows is rawData.length, fails tells whether a
\* row of the first chunk raises an exception
ProcessRequests ==
  {[type |-> "PROCESS_DATA", rows |-> 0, fails |-> FALSE],
   [type |-> "PROCESS_DATA", rows |-> 1, fails |-> FALSE],
   [type |-> "PROCESS_DATA", rows |-> 1, fails |-> TRUE],
   [type |-> "PROCESS_DATA", rows |-> workerChunkSize + 1, fails |-> FALSE]}

FilterRequest == [type |-> "FILTER_DATA", rows |-> 0, fails |-> FALSE]

\* a call that throws before it posts anything
ThrowingCall(c, request, error) ==
  [c EXCEPT !.calls = Append(@, [request |-> request, outcome |-> error,
                                 by |-> 0])]

\* new Promise(...): the listener is added and the message posted; the id of
\* a call is its position in calls
PostingCall(c, request) ==
  [c EXCEPT !.calls = Append(@, [request |-> request, outcome |-> "pending",
                                 by |-> 0]),
            !.listeners = Append(@, Len(c.calls) + 1),
            !.toWorker = Append(@, [type |-> request.type,
                                    req |-> Len(c.calls) + 1,
                                    rows |-> request.rows,
                                    fails |-> request.fails])]

\* DataWorkerClient.processRawData
clientProcessRawData(c, request) ==
  IF ~c.worker THEN ThrowingCall(c, request, "Web Worker not available")
  ELSE IF c.isProcessing
  THEN ThrowingCall(c, request, "Worker is already processing data")
  ELSE [PostingCall(c, request) EXCEPT !.isProcessing = TRUE]

\* DataWorkerClient.filterData
clientFilterData(c, request) ==
  IF ~c.worker THEN ThrowingCall(c, request, "Web Worker not available")
  ELSE PostingCall(c, request)

\* DataWorkerClient.destroy: terminate() stops the worker's handlers and
\* discards the messages in flight
clientDestroy(c) ==
  [c EXCEPT !.worker = FALSE, !.isProcessing = FALSE,
            !.toWorker = <<>>, !.handlers = {}, !.fromWorker = <<>>]

\* the worker's listener on a message m, up to its first await or its end
workerOnMessage(c, m) ==
  IF m.type = "FILTER_DATA"
  THEN [c EXCEPT !.fromWorker = Append(@, [type |-> "COMPLETE", req |-> m.req])]
  ELSE IF m.rows = 0
  THEN [c EXCEPT !.fromWorker = Append(@, [type |-> "COMPLETE", req |-> m.req])]
  ELSE IF m.fails
  THEN [c EXCEPT !.fromWorker = Append(@, [type |-> "ERROR", req |-> m.req])]
  ELSE [c EXCEPT !.fromWorker = Append(@, [type |-> "PROGRESS", req |-> m.req]),
                 !.handlers = @ \cup {[req |-> m.req, i |-> 0, rows |-> m.rows]}]

\* the timer of a handler h fires: i += chunkSize, then the next chunk and
\* PROGRESS, or the return and COMPLETE
workerResume(c, h) ==
  IF h.i + workerChunkSize < h.rows
  THEN [c EXCEPT !.fromWorker = Append(@, [type |-> "PROGRESS", req |-> h.req]),
                 !.handlers = (@ \ {h})
                              \cup {[h EXCEPT !.i = h.i + workerChunkSize]}]
  ELSE [c EXCEPT !.fromWorker = Append(@, [type |-> "COMPLETE", req |-> h.req]),
                 !.handlers = @ \ {h}]

\* a message m of the worker is dispatched to every listener on the worker:
\* PROGRESS settles nothing; on COMPLETE and on ERROR each handleMessage
\* removes itself and settles the promise of its own call with m, and the
\* one of a processRawData call resets isProcessing
clientOnMessage(c, m) ==
  IF m.type = "PROGRESS" THEN c
  ELSE [c EXCEPT
          !.calls = [k \in 1..Len(c.calls) |->
                       IF \E l \in 1..Len(c.listeners) : c.listeners[l] = k
                       THEN [c.calls[k] EXCEPT
                               !.outcome = IF m.type = "COMPLETE"
                                           THEN "resolved" ELSE "rejected",
                               !.by = m.req]
                       ELSE c.calls[k]],
          !.isProcessing =
             IF \E l \in 1..Len(c.listeners) :
                  c.calls[c.listeners[l]].request.type = "PROCESS_DATA"
             THEN FALSE ELSE c.isProcessing,
          !.listeners = <<>>,
          !.answered = @ \cup {m.req}]

InitClient ==
  /\ coordinateCache = <<>>
  /\ ret = NoCall
  /\ calls = 0
  /\ raws = <<>>
  /\ main = <<>>
  /\ worker = IdleWorker
  /\ csv = NoCsvCall
  /\ pointIdCounter = 0
  /\ filter = NoFilterCall
  /\ client = NoClient

UnchangedButClient ==
  UNCHANGED <<coordinateCache, ret, calls, raws, main, worker, csv,
              pointIdCounter, filter>>

ClientProcessRawData(request) ==
  /\ Len(client.calls) < MaxClientCalls
  /\ client' = clientProcessRawData(client, request)
  /\ UnchangedButClient

ClientFilterData ==
  /\ Len(client.calls) < MaxClientCalls
  /\ client' = clientFilterData(client, FilterRequest)
  /\ UnchangedButClient

ClientDestroy ==
  /\ client.worker
  /\ client' = clientDestroy(client)
  /\ UnchangedButClient

\* the worker takes the next message posted to it
WorkerOnMessage ==
  /\ client.toWorker # <<>>
  /\ client' = workerOnMessage([client EXCEPT !.toWorker = Tail(@)],
                               Head(client.toWorker))
  /\ UnchangedButClient

WorkerResume ==
  /\ \E h \in client.handlers : client' = workerResume(client, h)
  /\ UnchangedButClient

\* the client takes the next message the worker posted
ClientOnMessage ==
  /\ client.fromWorker # <<>>
  /\ client' = clientOnMessage([client EXCEPT !.fromWorker = Tail(@)],
                               Head(client.fromWorker))
  /\ UnchangedButClient

NextClient ==
  \/ \E request \in ProcessRequests : ClientProcessRawData(request)
  \/ ClientFilterData
  \/ ClientDestroy
  \/ WorkerOnMessage
  \/ WorkerResume
  \/ ClientOnMessage

SpecClient == InitClient /\ [][NextClient]_vars

IsParseRet == ret.op \in {"parse", "parseCsv"}

\* ---------------------------------------------------------------- claim C1
InBounds(p) ==
  /\ p.latitude >= 0 - 90 * DegUnit /\ p.latitude <= 90 * DegUnit
  /\ p.longitude >= 0 - 180 * DegUnit /\ p.longitude <= 180 * DegUnit

\* C1: every value the parser returns, and every value it stores in the
\* cache, is null or a pair with -90 <= latitude <= 90 and
\* -180 <= longitude <= 180; a token whose computed value lies outside the
\* limits yields null.
C1_ParsedWithinBounds ==
  /\ IsParseRet =>
       /\ ret.val = Null \/ (ret.val.kind = "pair" /\ InBounds(ret.val))
       /\ ret.arg \in OutOfRangeTokens => ret.val = Null
  /\ \A k \in DOMAIN coordinateCache :
       coordinateCache[k] = Null
         \/ (coordinateCache[k].kind = "pair" /\ InBounds(coordinateCache[k]))

C1_Witness ==
  /\ ret.op = "parse"
  /\ ret.arg = <<"0", "N", "/", "1", "8", "1", "W">>
  /\ ret.val = Null
  /\ \E k \in DOMAIN coordinateCache : coordinateCache[k].kind = "pair"

\* ---------------------------------------------------------------- claim C2
\* a numeral: digits with an optional decimal part, or a dot and digits
IsNumeral(c) ==
  /\ c # <<>>
  /\ \A i \in 1..Len(c) : IsDigit(c[i]) \/ c[i] = "."
  /\ Cardinality({i \in 1..Len(c) : c[i] = "."}) <= 1
  /\ \E i \in 1..Len(c) : IsDigit(c[i])

\* a run of one to three dash-separated numerals
IsDmsRun(r) ==
  LET comps == Split(r, "-")
  IN  /\ Len(comps) \in 1..3
      /\ \A i \in 1..Len(comps) : IsNumeral(comps[i])

\* the token is <latRun><H1>/<lonRun><H2> with both values within the limits
WellFormedToken(tok) ==
  LET halves == Split(tok, "/")
  IN  /\ Len(halves) = 2
      /\ Len(halves[1]) >= 2 /\ Len(halves[2]) >= 2
      /\ halves[1][Len(halves[1])] \in {"N", "S", "n", "s"}
      /\ halves[2][Len(halves[2])] \in {"E", "W", "e", "w"}
      /\ IsDmsRun(SubSeq(halves[1], 1, Len(halves[1]) - 1))
      /\ IsDmsRun(SubSeq(halves[2], 1, Len(halves[2]) - 1))
      /\ dmsToDecimal(SubSeq(halves[1], 1, Len(halves[1]) - 1)).v <= 90 * DegUnit
      /\ dmsToDecimal(SubSeq(halves[2], 1, Len(halves[2]) - 1)).v <= 180 * DegUnit

\* C2: for a well-formed token within the limits (90 and 180 included) the
\* parser returns a pair whose latitude is dmsToDecimal of the latitude run,
\* negated exactly when the letter is S or s, and whose longitude is
\* dmsToDecimal of the longitude run, negated exactly when the letter is W or w.
C2_HemisphereSign ==
  (IsParseRet /\ WellFormedToken(ret.arg)) =>
    LET halves == Split(ret.arg, "/")
        latRun == SubSeq(halves[1], 1, Len(halves[1]) - 1)
        lonRun == SubSeq(halves[2], 1, Len(halves[2]) - 1)
        h1     == halves[1][Len(halves[1])]
        h2     == halves[2][Len(halves[2])]
    IN  /\ ret.val.kind = "pair"
        /\ ret.val.latitude = IF h1 \in {"S", "s"}
                              THEN 0 - dmsToDecimal(latRun).v
                              ELSE dmsToDecimal(latRun).v
        /\ ret.val.longitude = IF h2 \in {"W", "w"}
                               THEN 0 - dmsToDecimal(lonRun).v
                               ELSE dmsToDecimal(lonRun).v

\* 89-60s/179-60w: exactly -90 and -180, lower-case letters
C2_Witness ==
  /\ ret.op = "parse"
  /\ ret.arg = <<"8", "9", "-", "6", "0", "s", "/", "1", "7", "9", "-", "6", "0", "w">>
  /\ WellFormedToken(ret.arg)
  /\ ret.val = Pair(0 - 90 * DegUnit, 0 - 180 * DegUnit)

\* ---------------------------------------------------------------- claim C3
\* the run in front of the hemisphere letter of the i-th half of a token
HalfRun(tok, i) ==
  LET h == Trim(Split(tok, "/")[i])
  IN  SubSeq(h, 1, Len(h) - 1)

HasUnparsedComponent(r) ==
  \E i \in 1..Len(Split(r, "-")) : isNaN(ParseFloat(Trim(Split(r, "-")[i])))

\* degrees + minutes/60 + seconds/3600 over the components that are present
DmsSum(r) ==
  LET comps == Split(r, "-")
      n     == Len(comps)
      deg   == ParseFloat(Trim(comps[1])).v * (DegUnit \div SecUnit)
      min   == ParseFloat(Trim(comps[2])).v * (MinUnit \div SecUnit)
      sec   == ParseFloat(Trim(comps[3])).v
  IN  CASE n = 1 -> deg
        [] n = 2 -> deg + min
        [] OTHER -> deg + min + sec

\* C3: dmsToDecimal returns degrees + minutes/60 + seconds/3600 over the
\* components present when every component parses (12 -> 12, 12-30 -> 12.5,
\* 12-30-36 -> 12.51) and the not-a-number value when one does not; the
\* parser then returns null and raises nothing.
C3_DmsAccumulation ==
  /\ ret.op = "dms" =>
       /\ HasUnparsedComponent(ret.arg) => isNaN(ret.num)
       /\ ~HasUnparsedComponent(ret.arg) => ret.num = Num(DmsSum(ret.arg))
       /\ ret.arg = <<"1", "2">> => ret.num = Num(12 * DegUnit)
       /\ ret.arg = <<"1", "2", "-", "3", "0">> =>
            ret.num = Num(12 * DegUnit + DegUnit \div 2)
       /\ ret.arg = <<"1", "2", "-", "3", "0", "-", "3", "6">> =>
            ret.num = Num((1251 * DegUnit) \div 100)
  /\ (/\ IsParseRet
      /\ Len(Split(ret.arg, "/")) >= 2
      /\ \E i \in 1..2 : HasUnparsedComponent(HalfRun(ret.arg, i))) =>
       ret.val = Null

\* 5--3 has an empty component: dmsToDecimal gives NaN, and the token
\* 5--3N/0E parsed before it was stored as unparseable
C3_Witness ==
  /\ ret.op = "dms"
  /\ ret.arg = <<"5", "-", "-", "3">>
  /\ isNaN(ret.num)
  /\ <<"5", "-", "-", "3", "N", "/", "0", "E">> \in DOMAIN coordinateCache
  /\ coordinateCache[<<"5", "-", "-", "3", "N", "/", "0", "E">>] = Null

\* ---------------------------------------------------------------- claim C4
\* C4: a call of the cached parser on the empty string, a blank string, "-"
\* or "??" returns null and leaves the coordinate cache as it was, whatever
\* the cache holds.
C4_PlaceholdersRejected ==
  [][ (/\ calls' = calls + 1
       /\ ret'.op = "parse"
       /\ ret'.arg \in PlaceholderTokens)
      => (ret'.val = Null /\ coordinateCache' = coordinateCache) ]_vars

C4_Witness ==
  /\ ret.op = "parse"
  /\ ret.arg = <<"?", "?">>
  /\ ret.val = Null
  /\ DOMAIN coordinateCache # {}

\* ---------------------------------------------------------------- claim C5
\* the token splits on '/' into exactly two non-empty halves
ExactlyTwoHalves(tok) ==
  LET halves == Split(tok, "/")
  IN  Len(halves) = 2 /\ halves[1] # <<>> /\ halves[2] # <<>>

\* C5 (as claimed): every token that does not split on '/' into exactly a
\* latitude half and a longitude half is rejected with null.
C5_OnlyTwoHalvesAccepted ==
  (IsParseRet /\ ~ExactlyTwoHalves(ret.arg)) => ret.val = Null

\* ---------------------------------------------------------------- claim C6
\* C6: every call of the parser completes with an ordinary return value, a
\* pair or null, for every token and every cache state; no call raises.
C6_NeverThrows ==
  IsParseRet => ret.val.kind \in {"pair", "null"}

\* a token without '/', whose longitude half is undefined, after another call
C6_Witness ==
  /\ ret.op = "parse"
  /\ ret.arg = <<"1", "2", "-", "3", "0", "N">>
  /\ ret.val = Null
  /\ calls = 2

\* ------------------------------------------------- results of the passes
\* a pass has returned its record list
MainDone == main # <<>> /\ main[1].state = "resolved"
WorkerDone ==
  /\ raws # <<>>
  /\ worker.state = "done"
  /\ worker.outbox[Len(worker.outbox)].type = "COMPLETE"
CsvDone == raws # <<>> /\ csv.called /\ ~csv.result.hasError

WorkerPoints == worker.outbox[Len(worker.outbox)].points

\* the coordinate value of every row, as each pass reads it
MainFields(raw) == [i \in 1..Len(raw) |-> coordStringOf(raw[i])]

CsvFields(raw) ==
  LET h == coordHeaderKey(raw[1])
  IN  [i \in 1..Len(raw) |-> LookupHeader(raw[i], raw[1], h)]

\* the trimmed '+'-segments of a coordinate value
TrimmedSegments(field) ==
  IF Truthy(field) /\ field.s # NonString
  THEN LET segs == Split(field.s, "+")
       IN  [k \in 1..Len(segs) |-> Trim(segs[k])]
  ELSE <<>>

\* the segment is a coordinate pair: the cache-free parser accepts it
IsCoordinatePair(seg) == parseSingleCoordinateEntryCsv(seg).kind = "pair"

\* the value consists of coordinate pairs joined by '+'
HoldsPairsOnly(field) ==
  /\ TrimmedSegments(field) # <<>>
  /\ \A k \in 1..Len(TrimmedSegments(field)) :
       IsCoordinatePair(TrimmedSegments(field)[k])

RecordsOfRow(points, rowRef) ==
  SelectSeq(points, LAMBDA r : r.rowData = rowRef)

\* ---------------------------------------------------------------- claim C7
\* the records of every row of N pairs: N records in segment order that
\* share rowData, originalName and category and have distinct ids
RowExpansion(points, fields) ==
  \A i \in 1..Len(fields) :
    HoldsPairsOnly(fields[i]) =>
      LET segs == TrimmedSegments(fields[i])
          recs == RecordsOfRow(points, i - 1)
      IN  /\ Len(recs) = Len(segs)
          /\ \A k \in 1..Len(recs) :
               /\ recs[k].originalCoords = segs[k]
               /\ recs[k].latitude = parseSingleCoordinateEntryCsv(segs[k]).latitude
               /\ recs[k].longitude = parseSingleCoordinateEntryCsv(segs[k]).longitude
               /\ recs[k].originalName = recs[1].originalName
               /\ recs[k].category = recs[1].category
          /\ \A j, k \in 1..Len(recs) : j < k => recs[j].id # recs[k].id

\* the records of every row of N pairs are N records that differ pairwise
\* in id, latitude, longitude and originalCoords
RowExpansionAllDistinct(points, fields) ==
  \A i \in 1..Len(fields) :
    HoldsPairsOnly(fields[i]) =>
      LET segs == TrimmedSegments(fields[i])
          recs == RecordsOfRow(points, i - 1)
      IN  /\ Len(recs) = Len(segs)
          /\ \A k \in 1..Len(recs) :
               /\ recs[k].originalName = recs[1].originalName
               /\ recs[k].category = recs[1].category
          /\ \A j, k \in 1..Len(recs) :
               j < k => /\ recs[j].id # recs[k].id
                        /\ recs[j].latitude # recs[k].latitude
                        /\ recs[j].longitude # recs[k].longitude
                        /\ recs[j].originalCoords # recs[k].originalCoords

\* C7 (as claimed): a row of N pairs joined by '+' yields exactly N records
\* sharing rowData, originalName and category and pairwise distinct in id,
\* latitude, longitude and originalCoords.
C7_RecordsAllDistinct ==
  /\ MainDone => RowExpansionAllDistinct(main[1].processed, MainFields(raws[1]))
  /\ WorkerDone => RowExpansionAllDistinct(WorkerPoints, MainFields(raws[1]))
  /\ CsvDone => RowExpansionAllDistinct(csv.result.points, CsvFields(raws[1]))

\* C7 (amended): in a pass that returns its records, a row of N pairs joined
\* by '+' yields exactly N records, in segment order, sharing rowData,
\* originalName and category and pairwise distinct in id; the k-th record
\* carries the k-th trimmed segment as originalCoords and that segment's
\* parsed latitude and longitude.
C7_RowExpansion ==
  /\ MainDone => RowExpansion(main[1].processed, MainFields(raws[1]))
  /\ WorkerDone => RowExpansion(WorkerPoints, MainFields(raws[1]))
  /\ CsvDone => RowExpansion(csv.result.points, CsvFields(raws[1]))

\* a row that repeats a pair, after a row of two different pairs
C7_Witness ==
  /\ raws = <<(<<RowDouble, RowRepeated>>)>>
  /\ MainDone
  /\ WorkerDone
  /\ Len(main[1].processed) = 5
  /\ main[1].processed[3].originalCoords = main[1].processed[5].originalCoords
  /\ main[1].processed[3].latitude = main[1].processed[4].latitude
  /\ main[1].processed[3].id # main[1].processed[5].id

\* ---------------------------------------------------------------- claim C8
\* the segments of a row that produce a record
ExpectedOfRow(field, rowRef) ==
  LET segs == TrimmedSegments(field)
      kept == SelectSeq(segs, LAMBDA seg :
                /\ seg # <<>> /\ seg # <<"-">> /\ seg # <<"?", "?">>
                /\ IsCoordinatePair(seg))
  IN  [k \in 1..Len(kept) |->
         [rowData        |-> rowRef,
          originalCoords |-> kept[k],
          latitude       |-> parseSingleCoordinateEntryCsv(kept[k]).latitude,
          longitude      |-> parseSingleCoordinateEntryCsv(kept[k]).longitude]]

\* the expected records of the rows lo .. hi, in row order
RECURSIVE ExpectedFrom(_, _, _)
ExpectedFrom(fields, lo, hi) ==
  IF lo > hi THEN <<>>
  ELSE IF lo = hi THEN ExpectedOfRow(fields[lo], lo - 1)
  ELSE ExpectedFrom(fields, lo, (lo + hi) \div 2)
         \o ExpectedFrom(fields, (lo + hi) \div 2 + 1, hi)

Expected(fields) == ExpectedFrom(fields, 1, Len(fields))

Emitted(points) ==
  [k \in 1..Len(points) |->
     [rowData        |-> points[k].rowData,
      originalCoords |-> points[k].originalCoords,
      latitude       |-> points[k].latitude,
      longitude      |-> points[k].longitude]]

\* no row holds a coordinate value that is not a string
AllCoordinatesAreStrings(fields) ==
  \A i \in 1..Len(fields) : ~(Truthy(fields[i]) /\ fields[i].s = NonString)

\* C8: the records of a pass are, row by row and segment by segment, one per
\* trimmed segment that is non-empty, not a placeholder and parses; rows
\* without a usable coordinate value and unparseable segments contribute
\* nothing, raise no error and leave the other records as they are.
C8_OneRecordPerParsedSegment ==
  /\ MainDone => Emitted(main[1].processed) = Expected(MainFields(raws[1]))
  /\ WorkerDone => Emitted(WorkerPoints) = Expected(MainFields(raws[1]))
  /\ CsvDone => Emitted(csv.result.points) = Expected(CsvFields(raws[1]))
  /\ (raws # <<>> /\ AllCoordinatesAreStrings(MainFields(raws[1]))) =>
       /\ main[1].state \notin {"rejected", "stuck"}
       /\ \A m \in 1..Len(worker.outbox) : worker.outbox[m].type # "ERROR"
       /\ (csv.called /\ csv.text) => csv.result.error # "exception message"

\* a row of valid, out-of-range, placeholder, empty and unparseable segments
\* and a row without coordinates
C8_Witness ==
  /\ raws = <<(<<RowMixed, RowUnknownPlace>>)>>
  /\ MainDone
  /\ WorkerDone
  /\ CsvDone
  /\ Len(main[1].processed) = 2
  /\ Len(csv.result.points) = 2

\* ---------------------------------------------------------------- claim C9
\* the k-th record, counted from 0, has the id point-k; ids are distinct
IdsCountEmitted(points) ==
  /\ \A k \in 1..Len(points) : points[k].id = PointId(k - 1)
  /\ \A j, k \in 1..Len(points) : j < k => points[j].id # points[k].id

\* C9: within a pass the id counter starts at zero and advances once per
\* emitted record, so the k-th record has id point-k and ids are distinct,
\* also across the chunk boundaries of processRawData.
C9_IdsCountEmittedRecords ==
  /\ main # <<>> => IdsCountEmitted(main[1].processed)
  /\ IdsCountEmitted(worker.processed)
  /\ worker.idCounter = Len(worker.processed)
  /\ IdsCountEmitted(csv.result.points)
  /\ CsvDone => pointIdCounter = Len(csv.result.points)

\* records on both sides of the chunk boundary, fewer records than rows
C9_Witness ==
  /\ MainDone
  /\ Len(raws[1]) = chunkSize + 1
  /\ raws[1][1] = RowMixed
  /\ Len(main[1].processed) > 0
  /\ main[1].processed[Len(main[1].processed)].rowData = chunkSize
  /\ main[1].processed[Len(main[1].processed)].id
       = PointId(Len(main[1].processed) - 1)

\* --------------------------------------------------------------- claim C10
\* no key of the row contains a coordinate marker
NoCoordinateColumn(row) ==
  \A i \in 1..Len(row) :
    /\ ~Includes(ToLowerCase(row[i].k), MarkCoordDutch)
    /\ ~Includes(ToLowerCase(row[i].k), MarkCoordEnglish)

\* C10: processUploadedCsv on rows whose first row has no coordinate column
\* returns a failure with a message and no records; whenever its result
\* carries an error (missing column, no rows, an exception) the record list
\* is empty.
C10_CsvFailureHasNoRecords ==
  (raws # <<>> /\ csv.called) =>
    /\ (csv.text /\ raws[1] # <<>> /\ NoCoordinateColumn(raws[1][1])) =>
         /\ csv.result.hasError
         /\ csv.result.error # ""
         /\ csv.result.points = <<>>
    /\ csv.result.hasError => csv.result.points = <<>>

\* the first row lacks the column, the second row has valid coordinates
C10_Witness ==
  /\ raws = <<(<<RowNoCoordColumn, RowSingle>>)>>
  /\ csv.called
  /\ csv.text
  /\ csv.result.hasError
  /\ csv.result.points = <<>>

\* --------------------------------------------------------------- claim C11
\* no column of the row named by one of the keys holds a non-empty value
NoValueUnder(row, keys) ==
  \A i \in 1..Len(row) : row[i].k \in keys => row[i].v = <<>>

\* the row has no value under the header found in the first row (h = 0: no
\* such header)
NoValueUnderHeader(row, first, h) ==
  h = 0 \/ NoValueUnder(row, {first[h].k})

\* category and originalName of every record are non-empty strings
FieldsAreNonEmptyStrings(points) ==
  \A k \in 1..Len(points) :
    /\ points[k].category \notin {<<>>, NonString}
    /\ points[k].originalName \notin {<<>>, NonString}

\* the defaults of processRawData and of the worker
DefaultsApplied(points, raw) ==
  \A k \in 1..Len(points) :
    /\ NoValueUnder(raw[points[k].rowData + 1],
                    {KeyCatSlash, KeyCatNewline, KeyCatDutch, KeyCatEnglish})
         => points[k].category = StrUnknown
    /\ NoValueUnder(raw[points[k].rowData + 1],
                    {KeyNameSlash, KeyNameNewline, KeyNameDutch, KeyNameEnglish})
         => points[k].originalName = StrNA

\* the defaults of processUploadedCsv
CsvDefaultsApplied(points, raw) ==
  \A k \in 1..Len(points) :
    /\ NoValueUnderHeader(raw[points[k].rowData + 1], raw[1],
                          categoryHeaderKey(raw[1]))
         => points[k].category = StrUnknown
    /\ NoValueUnderHeader(raw[points[k].rowData + 1], raw[1],
                          nameHeaderKey(raw[1]))
         => points[k].originalName = StrNA

\* C11: in every pass, at every moment, each record's category and
\* originalName are non-empty strings; the category is "Unknown" when the row
\* has no category column or an empty value in it, the originalName is "N/A"
\* when the row has no name; and rows without them do not abort a pass.
C11_CategoryAndNameDefaults ==
  raws # <<>> =>
    /\ FieldsAreNonEmptyStrings(main[1].processed)
    /\ DefaultsApplied(main[1].processed, raws[1])
    /\ FieldsAreNonEmptyStrings(worker.processed)
    /\ DefaultsApplied(worker.processed, raws[1])
    /\ FieldsAreNonEmptyStrings(csv.result.points)
    /\ CsvDefaultsApplied(csv.result.points, raws[1])
    /\ AllCoordinatesAreStrings(MainFields(raws[1])) =>
         /\ main[1].state \notin {"rejected", "stuck"}
         /\ worker.outbox # <<>> =>
              worker.outbox[Len(worker.outbox)].type # "ERROR"
         /\ (csv.called /\ csv.text) => ~csv.result.hasError
                                        \/ csv.result.error # "exception message"

\* a row without name and category column, and a row with an empty category
C11_Witness ==
  /\ raws = <<(<<RowTwoCoordColumns, RowMixed>>)>>
  /\ MainDone
  /\ WorkerDone
  /\ CsvDone
  /\ Len(csv.result.points) = 3
  /\ \A k \in 1..3 :
       /\ main[1].processed[k].category = StrUnknown
       /\ main[1].processed[k].originalName = StrNA
       /\ WorkerPoints[k].category = StrUnknown
       /\ csv.result.points[k].category = StrUnknown
       /\ csv.result.points[k].originalName = StrNA

\* ------------------------------------------------- claims C12 to C16: filter
\* how often x occurs in seq
Count(seq, x) == Cardinality({i \in 1..Len(seq) : seq[i] = x})

IsSentinel(categoryFilter) == categoryFilter = <<>> \/ categoryFilter = FilterAll

IsBlank(searchQuery) == \A i \in 1..Len(searchQuery) : searchQuery[i] \in WhiteSpace

\* sub occurs in s as a run of consecutive characters
IsSubstring(sub, s) ==
  \E i \in 1..(Len(s) - Len(sub) + 1) : SubSeq(s, i, i + Len(sub) - 1) = sub

\* the lower-cased texts of a point that the search looks at
SearchedTexts(point, raw) ==
  {ToLowerCase(point.originalName), ToLowerCase(point.category),
   ToLowerCase(point.originalCoords)}
    \cup {ToLowerCase(raw[point.rowData + 1][i].v) :
            i \in 1..Len(raw[point.rowData + 1])}

PassesSearch(point, raw, searchQuery) ==
  \/ IsBlank(searchQuery)
  \/ \E t \in SearchedTexts(point, raw) : IsSubstring(ToLowerCase(searchQuery), t)

PassesCategory(point, categoryFilter) ==
  IsSentinel(categoryFilter) \/ point.category = categoryFilter

\* the two values are in the order the sort spec asks for
InSortOrder(a, b, sortConfig) ==
  LET av == sortValue(a, raws[1][a.rowData + 1], sortConfig.key)
      bv == sortValue(b, raws[1][b.rowData + 1], sortConfig.key)
  IN  IF sortConfig.key \in {KeyComputedLatitude, KeyComputedLongitude}
      THEN IF sortConfig.direction = "asc" THEN av.n <= bv.n ELSE av.n >= bv.n
      ELSE IF sortConfig.direction = "asc"
      THEN localeCompare(ToLowerCase(av.s), ToLowerCase(bv.s)) <= 0
      ELSE localeCompare(ToLowerCase(av.s), ToLowerCase(bv.s)) >= 0

\* the points of the input that pass both filters, in input order
PassingPoints ==
  SelectSeq(filter.before,
            LAMBDA p : /\ PassesCategory(p, filter.categoryFilter)
                       /\ PassesSearch(p, raws[1], filter.searchQuery))

\* result holds the points of passing, each as often, in the order of the
\* sort spec
IsSortedPermutation(result, passing, sortConfig) ==
  /\ Len(result) = Len(passing)
  /\ \A k \in 1..Len(passing) :
       Count(result, passing[k]) = Count(passing, passing[k])
  /\ sortConfig.null => result = passing
  /\ ~sortConfig.null =>
       \A k \in 1..(Len(result) - 1) :
         InSortOrder(result[k], result[k + 1], sortConfig)

\* C12: applying createOptimizedFilter to its own result with the same
\* criteria returns the same sequence, in the same order.
C12_FilterIdempotent ==
  filter.reapplied => filter.again = filter.result

\* a sorted result that holds records with equal sort keys
C12_Witness ==
  /\ filter.reapplied
  /\ raws = <<(<<RowRepeated, RowSingle>>)>>
  /\ filter.sortConfig.key = KeyComputedLatitude
  /\ IsSentinel(filter.categoryFilter)
  /\ filter.searchQuery = <<>>
  /\ Len(filter.again) = 4
  /\ filter.again[1].latitude = filter.again[3].latitude
  /\ filter.again[1].id = PointId(0)
  /\ filter.again[3].id = PointId(2)

\* C13: a call leaves the caller's array as it was, and returns only points
\* of the input, none more often than the input holds it.
C13_FilterLeavesInput ==
  filter.called =>
    /\ main[1].processed = filter.before
    /\ \A k \in 1..Len(filter.result) :
         /\ Count(filter.before, filter.result[k]) >= 1
         /\ Count(filter.result, filter.result[k])
              <= Count(filter.before, filter.result[k])
    /\ filter.reapplied =>
         \A k \in 1..Len(filter.again) :
           Count(filter.again, filter.again[k])
             <= Count(filter.result, filter.again[k])

\* a sort without any filter: the result is in another order than the input
C13_Witness ==
  /\ filter.called
  /\ IsSentinel(filter.categoryFilter)
  /\ IsBlank(filter.searchQuery)
  /\ ~filter.sortConfig.null
  /\ filter.result # filter.before
  /\ Len(filter.result) = Len(filter.before)
  /\ main[1].processed = filter.before

\* C14: the category stage keeps exactly the points whose category equals
\* categoryFilter, and passes every point when categoryFilter is "all" or
\* empty, whatever the categories of the points are.
C14_CategoryStage ==
  filter.called =>
    /\ ~IsSentinel(filter.categoryFilter) =>
         \A k \in 1..Len(filter.result) :
           filter.result[k].category = filter.categoryFilter
    /\ (IsBlank(filter.searchQuery) /\ filter.sortConfig.null) =>
         filter.result =
           IF IsSentinel(filter.categoryFilter) THEN filter.before
           ELSE SelectSeq(filter.before,
                          LAMBDA p : p.category = filter.categoryFilter)

\* a category that some points of the input have and others do not
C14_Witness ==
  /\ filter.called
  /\ filter.categoryFilter = <<"b", "a", "y">>
  /\ IsBlank(filter.searchQuery)
  /\ filter.sortConfig.null
  /\ filter.result # <<>>
  /\ Len(filter.result) < Len(filter.before)

\* C15: with a query that is not blank a point passes the search stage
\* exactly when the lower-cased query occurs in its lower-cased originalName,
\* category, originalCoords or in a lower-cased value of its rowData; a blank
\* query passes every point.
C15_SearchStage ==
  (filter.called /\ IsSentinel(filter.categoryFilter) /\ filter.sortConfig.null)
    => filter.result =
         SelectSeq(filter.before,
                   LAMBDA p : PassesSearch(p, raws[1], filter.searchQuery))

\* a query that occurs only in a value of rowData, in another case
C15_Witness ==
  /\ filter.called
  /\ IsSentinel(filter.categoryFilter)
  /\ filter.sortConfig.null
  /\ filter.searchQuery = <<"E", "+", "1">>
  /\ filter.result # <<>>
  /\ Len(filter.result) < Len(filter.before)
  /\ ~IsSubstring(<<"e", "+", "1">>, ToLowerCase(filter.result[1].originalCoords))

\* C16: with a sort spec the result is a permutation of the points that pass
\* both filters, ordered by the key in the given direction (numerically for
\* the computed latitude and longitude, by case-insensitive comparison of
\* originalCoords or rowData[key], a missing value counting as empty,
\* otherwise); with a null sort spec the input order is kept.
C16_SortStage ==
  filter.called =>
    IsSortedPermutation(filter.result, PassingPoints, filter.sortConfig)

\* a descending sort by a column of rowData that changes the order
C16_Witness ==
  /\ filter.called
  /\ filter.sortConfig.key = KeyCatEnglish
  /\ filter.sortConfig.direction = "desc"
  /\ raws = <<(<<RowRepeated, RowSingle>>)>>
  /\ IsSentinel(filter.categoryFilter)
  /\ IsBlank(filter.searchQuery)
  /\ Len(filter.result) = 4
  /\ filter.result[1].category = <<"r", "i", "v", "e", "r">>
  /\ filter.result[4].category = <<"b", "a", "y">>
  /\ filter.before[4].category = <<"r", "i", "v", "e", "r">>

\* ------------------------------------------------------------------- C17
\* the progress values the caller's onProgress receives, in order: the
\* client hands payload.progress of every PROGRESS message to it
ProgressReports ==
  LET posts == SelectSeq(worker.outbox, LAMBDA m : m.type = "PROGRESS")
  IN  [k \in 1..Len(posts) |-> posts[k].progress]

FractionLess(a, b) == a.num * b.den < b.num * a.den

FractionInUnitInterval(a) == a.den > 0 /\ 0 <= a.num /\ a.num <= a.den

FractionIsOne(a) == a.num = a.den

\* the number of chunks of n rows
ChunkCount(n) == (n + workerChunkSize - 1) \div workerChunkSize

\* C17: in one worker pass the reported progress values lie in [0, 1] and
\* increase strictly; a pass that completes has reported once per chunk,
\* the value 1 with the last chunk and with no earlier one, whether or not
\* the row count is a multiple of the chunk size
C17_ProgressMonotonic ==
  LET reports == ProgressReports
      n == Len(reports)
  IN  /\ \A k \in 1..n : FractionInUnitInterval(reports[k])
      /\ \A k \in 1..(n - 1) : FractionLess(reports[k], reports[k + 1])
      /\ \A k \in 1..(n - 1) : ~FractionIsOne(reports[k])
      /\ worker.state = "awaiting" /\ worker.i + workerChunkSize >= Len(raws[1])
           => FractionIsOne(reports[n])
      /\ WorkerDone =>
           /\ n = ChunkCount(Len(raws[1]))
           /\ n > 0 => FractionIsOne(reports[n])

\* a completed pass over 101 rows: three chunks, reports 50/101, 100/101, 1
C17_Witness ==
  /\ WorkerDone
  /\ Len(raws[1]) = (2 * workerChunkSize) + 1
  /\ ProgressReports =
       <<[num |-> workerChunkSize, den |-> (2 * workerChunkSize) + 1],
         [num |-> 2 * workerChunkSize, den |-> (2 * workerChunkSize) + 1],
         [num |-> 1, den |-> 1]>>

\* ------------------------------------------------------------------- C18
\* the value of the cached parser after a call, against the cache-free
\* parser of actions.ts on the same token, and the entry the call leaves
CacheTransparent ==
  ret.op = "parse" =>
    /\ ret.val = parseSingleCoordinateEntryCsv(ret.arg)
    /\ ~IsPlaceholder(ret.arg) =>
         /\ ret.arg \in DOMAIN coordinateCache
         /\ coordinateCache[ret.arg] = ret.val

\* every key is a token whose parse was attempted and holds its result: an
\* unparseable token is present with null, a placeholder is never a key
CacheHoldsAttempts ==
  \A k \in DOMAIN coordinateCache :
    /\ ~IsPlaceholder(k)
    /\ coordinateCache[k] = parseSingleCoordinateEntryCsv(k)

\* a step keeps every entry as it is and adds at most the token of the call
CacheOnlyGrows ==
  /\ \A k \in DOMAIN coordinateCache :
       /\ k \in DOMAIN coordinateCache'
       /\ coordinateCache'[k] = coordinateCache[k]
  /\ DOMAIN coordinateCache' \subseteq (DOMAIN coordinateCache \cup {ret'.arg})

\* C18: every call of the cached parser returns what the cache-free parser
\* returns on that token, whatever was parsed before; after a call on a
\* token that is no placeholder the cache maps that raw token to the value
\* returned, null included; an entry once written is never changed or removed
C18_CacheTransparent ==
  /\ [](CacheTransparent /\ CacheHoldsAttempts)
  /\ [][CacheOnlyGrows]_vars

\* a second call answered from the cache with the stored null of an
\* unparseable token whose halves are swapped
C18_Witness ==
  /\ ret.op = "parse"
  /\ ret.fromCache
  /\ ret.arg \in BadHemisphereTokens
  /\ ret.val = Null
  /\ DOMAIN coordinateCache = {ret.arg}
  /\ coordinateCache[ret.arg] = Null

\* ------------------------------------------------------------------- C19
NumberRunChars ==
  {"0", "1", "2", "3", "4", "5", "6", "7", "8", "9", ".", "-"}

\* s is a non-empty run of digits, dots and dashes followed by one of letters
EndsInHemisphere(s, letters) ==
  /\ Len(s) >= 2
  /\ s[Len(s)] \in letters
  /\ \A i \in 1..(Len(s) - 1) : s[i] \in NumberRunChars

\* the two halves of tok, the first two parts between the slashes, are well
\* formed; with strip the white space around each half is removed first
HalvesWellFormed(tok, strip) ==
  LET halves == Split(tok, "/")
  IN  /\ Len(halves) >= 2
      /\ EndsInHemisphere(IF strip THEN Trim(halves[1]) ELSE halves[1],
                          {"N", "S", "n", "s"})
      /\ EndsInHemisphere(IF strip THEN Trim(halves[2]) ELSE halves[2],
                          {"E", "W", "e", "w"})

\* C19 as stated: both parsers return null unless the latitude half, the
\* part before the slash as it stands, ends in N or S and the longitude half
\* in E or W, in either case, each letter preceded only by digits, dots and
\* dashes
C19_HemisphereLettersAsStated ==
  ret.op \in {"parse", "parseCsv"} /\ ret.val # Null
    => HalvesWellFormed(ret.arg, FALSE)

\* C19: both parsers return null unless the latitude half, with the white
\* space around it removed, ends in N or S and the longitude half, likewise
\* trimmed, ends in E or W, in either case, each letter preceded only by a
\* non-empty run of digits, dots and dashes; the tokens with swapped halves
\* or with a missing or wrong letter are rejected
C19_HemisphereLettersRequired ==
  ret.op \in {"parse", "parseCsv"} =>
    /\ ret.val # Null => HalvesWellFormed(ret.arg, TRUE)
    /\ ret.arg \in BadHemisphereTokens => ret.val = Null

\* the token with the longitude half first has been rejected by the cached
\* parser, which stored the null
C19_Witness ==
  /\ ret.op = "parse"
  /\ ret.arg = <<"9", "2", "-", "5", "0", "E", "/", "1", "2", "-", "3", "0", "N">>
  /\ ret.val = Null
  /\ ~ret.fromCache
  /\ coordinateCache[ret.arg] = Null

\* ------------------------------------------------------------------- C20
\* every value the row has under one of keys is empty or white space only
BlankValueUnder(row, keys) ==
  \A i \in 1..Len(row) : row[i].k \in keys => IsBlank(row[i].v)

\* the records of rows with a blank category value have category "Unknown"
BlankCategoryIsUnknown(points, raw) ==
  \A k \in 1..Len(points) :
    BlankValueUnder(raw[points[k].rowData + 1],
                    {KeyCatSlash, KeyCatNewline, KeyCatDutch, KeyCatEnglish})
      => points[k].category = StrUnknown

\* the same for processUploadedCsv, which reads the category under the
\* header found in the first row
CsvBlankCategoryIsUnknown(points, raw) ==
  \A k \in 1..Len(points) :
    (\/ categoryHeaderKey(raw[1]) = 0
     \/ BlankValueUnder(raw[points[k].rowData + 1],
                        {raw[1][categoryHeaderKey(raw[1])].k}))
      => points[k].category = StrUnknown

\* C20: in every pass (processRawData, the worker's processRawDataInChunks,
\* processUploadedCsv) a record's category is "Unknown" when the category
\* value of its row is blank, a value of white space only included
C20_BlankCategoryIsUnknown ==
  raws # <<>> =>
    /\ BlankCategoryIsUnknown(main[1].processed, raws[1])
    /\ BlankCategoryIsUnknown(worker.processed, raws[1])
    /\ CsvBlankCategoryIsUnknown(csv.result.points, raws[1])

\* ------------------------------------------------------------------- C21
\* a non-empty row sequence none of whose rows has a recognised coordinate key
CoordinateColumnAbsent(raw) ==
  /\ raw # <<>>
  /\ \A i \in 1..Len(raw) : NoCoordinateColumn(raw[i])

\* C21: over rows without any coordinate column processRawData does not
\* resolve and the worker does not post COMPLETE: both report a failure
\* instead of completing with an empty record list
C21_MissingColumnIsAnError ==
  raws # <<>> /\ CoordinateColumnAbsent(raws[1]) =>
    /\ main[1].state # "resolved"
    /\ ~WorkerDone

\* ------------------------------------------------------------------- C22
\* the known category-header literals, compared in lower case
CategoryLiterals == {MarkCatSlash, MarkCatDutch, MarkCatEnglish}

ContainsCategoryMarker(key) ==
  \/ Includes(ToLowerCase(key), MarkCatDutch)
  \/ Includes(ToLowerCase(key), MarkCatEnglish)

\* the value is a number as Number() reads it, blank strings apart
PurelyNumeric(v) == Trim(v) # <<>> /\ ~NumberIsNaN(v)

\* the first index of first that lies in hits, and no earlier one does
IsFirstOf(h, hits) == h \in hits /\ \A j \in hits : h <= j

\* the category key of the first row as the claim describes it, numeric
\* deciding which fallback values are refused
CategoryKeyAsDescribed(first, h, refused) ==
  LET exact    == {i \in 1..Len(first) :
                     ToLowerCase(first[i].k) \in CategoryLiterals}
      fallback == {i \in 1..Len(first) :
                     /\ ContainsCategoryMarker(first[i].k)
                     /\ first[i].v \notin refused}
  IN  IF exact # {} THEN IsFirstOf(h, exact)
      ELSE IF fallback # {} THEN IsFirstOf(h, fallback)
      ELSE h = 0

NumericValues == {v \in {c.v : c \in HeaderColumns} : PurelyNumeric(v)}

BlankValues == {v \in {c.v : c \in HeaderColumns} : Trim(v) = <<>>}

\* the category of every record is the trimmed value its row has under the
\* key with index h of the first row, "Unknown" without such a value
CategoriesReadUnder(points, raw, h) ==
  \A k \in 1..Len(points) :
    LET v == LookupHeader(raw[points[k].rowData + 1], raw[1], h)
    IN  points[k].category =
          IF v.def /\ Trim(v.s) # <<>> THEN Trim(v.s) ELSE StrUnknown

\* C22 as stated: an exact category literal wins, else the first key that
\* contains a marker and whose first-row value is not purely numeric
C22_CategoryColumnAsStated ==
  CsvDone =>
    CategoryKeyAsDescribed(raws[1][1], categoryHeaderKey(raws[1][1]),
                           NumericValues)

\* C22: the category column is resolved once, on the first row: the first
\* key equal to a category literal, also behind a key that only contains a
\* marker; else the first key that contains a marker and whose first-row
\* value is neither empty, blank nor numeric; else none. Every row's
\* category is read under that key.
C22_CategoryColumnResolution ==
  CsvDone =>
    /\ CategoryKeyAsDescribed(raws[1][1], categoryHeaderKey(raws[1][1]),
                              NumericValues \cup BlankValues)
    /\ CategoriesReadUnder(csv.result.points, raws[1],
                           categoryHeaderKey(raws[1][1]))

\* the exact key "Category" stands behind "Category code", whose value would
\* pass the fallback; the record has the value under "Category"
C22_Witness ==
  /\ CsvDone
  /\ raws[1] = <<(<<[k |-> KeyCoordEnglish, v |-> <<"1", "N", "/", "2", "E">>],
                    [k |-> KeyCatCode, v |-> <<"h", "i", "l", "l">>],
                    [k |-> KeyCatEnglish, v |-> <<"1", "2">>]>>)>>
  /\ Len(csv.result.points) = 1
  /\ csv.result.points[1].category = <<"1", "2">>

\* ------------------------------------------------------------------- C23
\* the orders in which the three stages can be applied, other than the
\* order category, search, sort of createOptimizedFilter
StageOrders ==
  {<<"search", "category", "sort">>,
   <<"category", "sort", "search">>, <<"search", "sort", "category">>,
   <<"sort", "category", "search">>, <<"sort", "search", "category">>}

ApplyStage(stage, cur, raw, categoryFilter, searchQuery, sortConfig) ==
  CASE stage = "category" -> categoryStage(cur, categoryFilter)
    [] stage = "search"   -> searchStage(cur, raw, searchQuery)
    [] stage = "sort"     -> sortStage(cur, raw, sortConfig)

\* the sequence the three stages give when applied to points in this order
StagesInOrder(order, points, raw, categoryFilter, searchQuery, sortConfig) ==
  ApplyStage(order[3],
    ApplyStage(order[2],
      ApplyStage(order[1], [fresh |-> FALSE, items |-> points],
                 raw, categoryFilter, searchQuery, sortConfig),
      raw, categoryFilter, searchQuery, sortConfig),
    raw, categoryFilter, searchQuery, sortConfig).items

\* some order of the stages gives another sequence than the call returned
OrderChangesResult(result, points, raw, categoryFilter, searchQuery, sortConfig) ==
  \E order \in StageOrders :
    StagesInOrder(order, points, raw, categoryFilter, searchQuery, sortConfig)
      # result

\* the query occurs in the category of some point
QueryMatchesCategory(points, searchQuery) ==
  /\ ~IsBlank(searchQuery)
  /\ \E k \in 1..Len(points) :
       IsSubstring(ToLowerCase(searchQuery), ToLowerCase(points[k].category))

\* some criteria make the order of the stages visible on these points
ObservableOn(points, raw) ==
  \E f \in CategoryFilters, q \in SearchQueries, s \in SortConfigs :
    OrderChangesResult(createOptimizedFilter(points, raw, f, q, s).result,
                       points, raw, f, q, s)

\* C23 as stated: among the inputs there is one, materialized with the cache
\* as it is, for which the stages, applied in another order, give another
\* result sequence than createOptimizedFilter
C23_StageOrderObservable ==
  \E raw \in FilterInputs :
    ObservableOn(processChunk(raw, 0, <<>>, coordinateCache).processed, raw)

\* C23: the order of the stages is not observable in the result: the two
\* filters test single points and the sort is stable, so every order of the
\* three stages gives the sequence createOptimizedFilter returns, also when
\* the query matches category names
C23_StageOrderInvisible ==
  filter.called =>
    ~OrderChangesResult(filter.result, filter.before, raws[1],
                        filter.categoryFilter, filter.searchQuery,
                        filter.sortConfig)

\* a category filter, a query that occurs in the category names of the
\* points it keeps, and a sort that reorders them
C23_Witness ==
  /\ filter.called
  /\ raws = <<(<<RowRepeated, RowSingle>>)>>
  /\ filter.categoryFilter = <<"b", "a", "y">>
  /\ filter.searchQuery = <<"B">>
  /\ QueryMatchesCategory(filter.result, filter.searchQuery)
  /\ filter.sortConfig = [null |-> FALSE, key |-> KeyComputedLongitude,
                          direction |-> "desc"]
  /\ Len(filter.before) = 4
  /\ Len(filter.result) = 3
  /\ filter.result[1].id = PointId(1)
  /\ filter.result[2].id = PointId(0)
  /\ filter.result[3].id = PointId(2)

\* ------------------------------------------------------------------- C24
\* the records of one pass over raw that runs alone, from an empty cache
AloneRecords(raw) ==
  ProcessRows(raw, 0, Len(raw),
              [processed |-> <<>>, idCounter |-> 0, cache |-> <<>>,
               threw |-> FALSE]).processed

\* the ids are point-0 .. point-(n-1) in order
IdsInSequence(points) ==
  \A k \in 1..Len(points) : points[k].id = PointId(k - 1)

\* C24: of two processRawData passes whose chunks interleave on the shared
\* cache, each resolves with the records and ids of a pass that runs alone;
\* so does every processUploadedCsv call that follows another on the shared
\* pointIdCounter; the ids of a pass are point-0 .. point-(n-1)
C24_OverlappingPassesIndependent ==
  /\ \A p \in DOMAIN main :
       main[p].state = "resolved" =>
         /\ main[p].processed = AloneRecords(raws[p])
         /\ IdsInSequence(main[p].processed)
  /\ (csv.called /\ ~csv.result.hasError) =>
       /\ csv.result.points
            = processUploadedCsv([text |-> TRUE, data |-> raws[1],
                                  pointIdCounter |-> 0]).points
       /\ IdsInSequence(csv.result.points)
       /\ pointIdCounter = Len(csv.result.points)

\* the second pass has resolved between the two chunks of the first, which
\* found its tokens in the cache; a CSV call has returned records meanwhile
C24_Witness ==
  /\ Len(main) = 2
  /\ Len(raws[1]) = chunkSize + 1
  /\ Len(raws[2]) = chunkSize + 1
  /\ raws[1] # raws[2]
  /\ main[1].state = "scheduled"
  /\ main[2].state = "resolved"
  /\ main[2].processed # <<>>
  /\ csv.called
  /\ pointIdCounter > 0

\* ------------------------------------------------------------------- C25
Settled(call) == call.outcome \in {"resolved", "rejected"}

\* C25: every promise of filterData and processRawData that settles does so
\* with the worker's response to its own request, and the response to a
\* request settles exactly one promise, also when calls are made before
\* earlier ones have settled
C25_ResponsesReachTheirCaller ==
  /\ \A k \in 1..Len(client.calls) :
       Settled(client.calls[k]) => client.calls[k].by = k
  /\ \A r \in client.answered :
       Cardinality({k \in 1..Len(client.calls) :
                      Settled(client.calls[k]) /\ client.calls[k].by = r}) = 1

\* ------------------------------------------------------------------- C29
\* the PROCESS_DATA requests the worker has received or is about to receive
\* and has not finished
ProcessDataInWorker ==
  {client.toWorker[k].req : k \in {j \in 1..Len(client.toWorker) :
                                    client.toWorker[j].type = "PROCESS_DATA"}}
  \cup {h.req : h \in client.handlers}

\* the PROCESS_DATA requests posted whose COMPLETE or ERROR has not reached
\* the client
ProcessDataUnanswered ==
  {k \in 1..Len(client.calls) :
     /\ client.calls[k].request.type = "PROCESS_DATA"
     /\ client.calls[k].outcome \in {"pending", "resolved", "rejected"}
     /\ k \notin client.answered}

\* C29: the worker works on at most one PROCESS_DATA request of the client
\* at a time, and while the client has its worker isProcessing is true
\* exactly when a PROCESS_DATA request is unanswered, whatever filterData
\* calls and destroy() come in between
C29_OneProcessDataAtATime ==
  /\ Cardinality(ProcessDataInWorker) <= 1
  /\ client.worker => (client.isProcessing <=> ProcessDataUnanswered # {})

\* ------------------------------------------------------------------- C26
\* every record's originalCoords is a trimmed segment of the coordinate
\* field of its row
SegmentsTraceable(points, fields) ==
  \A k \in 1..Len(points) :
    \E j \in 1..Len(TrimmedSegments(fields[points[k].rowData + 1])) :
      points[k].originalCoords
        = TrimmedSegments(fields[points[k].rowData + 1])[j]

\* parsing originalCoords with the cache as it is gives the record's values
ReparsesWithCache(points, cache) ==
  \A k \in 1..Len(points) :
    parseSingleCoordinateEntry(points[k].originalCoords, cache).val
      = Pair(points[k].latitude, points[k].longitude)

ReparsesWithoutCache(points) ==
  \A k \in 1..Len(points) :
    parseSingleCoordinateEntryCsv(points[k].originalCoords)
      = Pair(points[k].latitude, points[k].longitude)

RecordsTraceable ==
  raws # <<>> =>
    /\ SegmentsTraceable(main[1].processed, MainFields(raws[1]))
    /\ ReparsesWithCache(main[1].processed, coordinateCache)
    /\ SegmentsTraceable(worker.processed, MainFields(raws[1]))
    /\ ReparsesWithCache(worker.processed, worker.cache)
    /\ csv.result.points # <<>> =>
         /\ SegmentsTraceable(csv.result.points, CsvFields(raws[1]))
         /\ ReparsesWithoutCache(csv.result.points)

\* C26: for every record of every pass, at every moment, originalCoords is
\* one of the trimmed '+'-segments of the coordinate field of the record's
\* row, and parsing it again gives exactly the record's latitude and
\* longitude; no step of a pass changes a row
C26_TraceabilityRoundTrip ==
  /\ []RecordsTraceable
  /\ [][raws' = raws]_vars

\* the three passes are through with a row of several segments, blanks
\* around some: the second record stems from the last valid segment
C26_Witness ==
  /\ MainDone /\ WorkerDone /\ CsvDone
  /\ raws = <<(<<RowMixed>>)>>
  /\ Len(main[1].processed) = 2
  /\ main[1].processed[2].originalCoords
       = <<"1", "2", "-", "3", "0", "N", "/", "9", "2", "-", "5", "0", "E">>
  /\ main[1].processed[2].rowData = 0
  /\ WorkerPoints = main[1].processed
  /\ csv.result.points = main[1].processed

\* ------------------------------------------------------------------- C27
\* page.tsx, the initial load: the three fields of a row
coordStringOfPage(row) ==
  Or(Or(Or(Or(Lookup(row, KeyCoordNewline), Lookup(row, KeyCoordSlash)),
           Lookup(row, KeyCoordNewline)),
        Lookup(row, KeyCoordDutch)),
     Lookup(row, KeyCoordEnglish))

originalNameOfPage(row) ==
  Or(Or(Or(Or(Lookup(row, KeyNameNewline), Lookup(row, KeyNameSlash)),
           Lookup(row, KeyNameDutch)),
        Lookup(row, KeyNameEnglish)),
     Defined(StrNA))

categoryOfPage(row) ==
  Or(Or(Or(Or(Lookup(row, KeyCatNewline), Lookup(row, KeyCatSlash)),
           Lookup(row, KeyCatDutch)),
        Lookup(row, KeyCatEnglish)),
     Defined(StrUnknown))

\* the body of for (const row of raw), with the parser of page.tsx that has
\* no cache
PageRow(row, rowRef, acc) ==
  EmitRow(coordStringOfPage(row), originalNameOfPage(row).s,
          categoryOfPage(row).s, rowRef, FALSE, acc)

RECURSIVE PageRows(_, _, _, _)
PageRows(raw, i, endIndex, acc) ==
  IF i >= endIndex \/ acc.threw THEN acc
  ELSE IF i + 1 = endIndex THEN PageRow(raw[i + 1], i, acc)
  ELSE LET mid == (i + endIndex) \div 2
       IN  PageRows(raw, mid, endIndex, PageRows(raw, i, mid, acc))

\* the loop of the initial load over all rows at once; the catch sets no
\* points and the error
pageLoadPoints(raw) ==
  LET acc == PageRows(raw, 0, Len(raw),
                      [processed |-> <<>>, idCounter |-> 0,
                       cache |-> <<>>, threw |-> FALSE])
  IN  IF acc.threw THEN <<>> ELSE acc.processed

\* the loop of processRawData and of the worker over all rows at once
UnchunkedPoints(raw) ==
  ProcessRows(raw, 0, Len(raw),
              [processed |-> <<>>, idCounter |-> 0,
               cache |-> <<>>, threw |-> FALSE]).processed

\* the worker has posted COMPLETE
WorkerComplete ==
  /\ worker.outbox # <<>>
  /\ worker.outbox[Len(worker.outbox)].type = "COMPLETE"

\* the chunks of a pass give what its own loop gives over all rows at once
ChunksAsOneLoop ==
  /\ MainDone => main[1].processed = UnchunkedPoints(raws[1])
  /\ WorkerComplete => WorkerPoints = UnchunkedPoints(raws[1])

\* C27: when processRawData has resolved, and when the worker has posted
\* COMPLETE, the records are exactly those of the unchunked loop of the
\* initial load over the same rows, in the same order and with the same ids
C27_ChunkingInvisible ==
  /\ MainDone => main[1].processed = pageLoadPoints(raws[1])
  /\ WorkerComplete => WorkerPoints = pageLoadPoints(raws[1])

\* ------------------------------------------------------------------- C28
\* C28: the sequence the worker's optimizedFilter returns for the points,
\* the category filter, the search query and the sort spec of a call is the
\* sequence createOptimizedFilter returned for them
C28_WorkerFilterAgrees ==
  filter.viaWorker => filter.workerResult = filter.result

\* ------------------------------------------------------------------- C30
\* the worker's messages are PROGRESS messages, then at most one COMPLETE
\* or ERROR, which is the last message
WorkerOutboxWellFormed ==
  \A i \in 1..Len(worker.outbox) :
    \/ worker.outbox[i].type = "PROGRESS"
    \/ /\ worker.outbox[i].type \in {"COMPLETE", "ERROR"}
       /\ i = Len(worker.outbox)
       /\ worker.state = "done"

\* a chunk that ran from an idle callback or a timer raised an exception:
\* the promise of processRawData is neither resolved nor rejected, and no
\* further chunk is scheduled
PromisePendingForever ==
  \E p \in DOMAIN main : main[p].state = "stuck"

\* C30: no promise of processRawData is left pending with no chunk
\* scheduled, and the worker posts PROGRESS messages followed by exactly one
\* COMPLETE or ERROR
C30_ExactlyOneOutcome ==
  /\ ~PromisePendingForever
  /\ WorkerOutboxWellFormed
  /\ worker.state = "done" =>
       worker.outbox[Len(worker.outbox)].type \in {"COMPLETE", "ERROR"}

====
